---- MODULE Spec2Model ----
(***************************************************************************)
(* Incident priority classifier of the i2r API (api/src/ml/service.js):    *)
(* lazy model load, tokenizer, Naive Bayes scoring, domain boost rules,    *)
(* softmax, and the HTTP handlers around them.                             *)
(*                                                                         *)
(* Texts are sequences of one-character strings.  JavaScript objects read  *)
(* from JSON are records whose fields are <<>> (property absent) or <<v>>  *)
(* (property present with value v).  Numbers that the code keeps as        *)
(* doubles are exact rationals <<n, d>>; a log-score is the pair           *)
(* [q, b] standing for ln(q) + b.                                          *)
(***************************************************************************)
EXTENDS Integers, Sequences, FiniteSets, TLC

(* ------------------------------------------------------------------ *)
(* Characters and strings                                              *)
(* ------------------------------------------------------------------ *)
UpperChars == <<"A","B","C","D","E","F","G","H","I","J","K","L","M",
                "N","O","P","Q","R","S","T","U","V","W","X","Y","Z">>
LowerChars == <<"a","b","c","d","e","f","g","h","i","j","k","l","m",
                "n","o","p","q","r","s","t","u","v","w","x","y","z">>
DigitChars == <<"0","1","2","3","4","5","6","7","8","9">>

Range(s) == {s[i] : i \in 1..Len(s)}

\* String.prototype.toLowerCase, one character
LowerChar(c) ==
    IF \E i \in 1..26 : UpperChars[i] = c
    THEN LowerChars[CHOOSE i \in 1..26 : UpperChars[i] = c]
    ELSE c

\* String.prototype.toLowerCase
toLowerCase(s) == [i \in 1..Len(s) |-> LowerChar(s[i])]

\* the class [a-z0-9] of the tokenizer's split pattern
TokenChars == Range(LowerChars) \cup Range(DigitChars)

\* \s of the rule patterns and of String.prototype.trim
SpaceChars == {" ", "\t", "\n"}

\* \w of the rule patterns (for \b)
WordChars == Range(LowerChars) \cup Range(UpperChars) \cup Range(DigitChars) \cup {"_"}

RECURSIVE TrimStart(_)
TrimStart(s) ==
    IF s # <<>> /\ Head(s) \in SpaceChars THEN TrimStart(Tail(s)) ELSE s

RECURSIVE TrimEnd(_)
TrimEnd(s) ==
    IF s # <<>> /\ s[Len(s)] \in SpaceChars
    THEN TrimEnd(SubSeq(s, 1, Len(s) - 1)) ELSE s

\* String.prototype.trim
trim(s) == TrimEnd(TrimStart(s))

\* a string as the tuple of its characters
ToChars(s) == SubSeq(s, 1, Len(s))

\* String.prototype.endsWith
endsWith(w, suf) ==
    /\ Len(w) >= Len(suf)
    /\ SubSeq(w, Len(w) - Len(suf) + 1, Len(w)) = suf

\* String.prototype.slice(0, -k)
sliceEnd(w, k) == SubSeq(w, 1, Len(w) - k)

(* ------------------------------------------------------------------ *)
(* Tokenization                                                        *)
(* ------------------------------------------------------------------ *)
STOP == {
    <<"t","h","e">>, <<"a">>, <<"a","n">>, <<"a","n","d">>, <<"o","r">>,
    <<"b","u","t">>, <<"o","f">>, <<"o","n">>, <<"a","t">>, <<"t","o">>,
    <<"f","o","r">>, <<"f","r","o","m">>, <<"b","y">>, <<"w","i","t","h">>,
    <<"i","n">>, <<"i","n","t","o">>, <<"o","v","e","r">>,
    <<"u","n","d","e","r">>, <<"i","s">>, <<"a","r","e">>, <<"w","a","s">>,
    <<"w","e","r","e">>, <<"b","e">>, <<"b","e","e","n">>,
    <<"b","e","i","n","g">>, <<"t","h","i","s">>, <<"t","h","a","t">>,
    <<"t","h","e","s","e">>, <<"t","h","o","s","e">>, <<"a","s">>,
    <<"i","t">>, <<"i","t","s">>, <<"w","e">>, <<"y","o","u">> }

\* lightStem with the rules tried in the order s, es, ed, ing
lightStemSFirst(w) ==
    IF endsWith(w, <<"s">>) /\ Len(w) > 3 THEN sliceEnd(w, 1)
    ELSE IF endsWith(w, <<"e","s">>) /\ Len(w) > 4 THEN sliceEnd(w, 2)
    ELSE IF endsWith(w, <<"e","d">>) /\ Len(w) > 4 THEN sliceEnd(w, 2)
    ELSE IF endsWith(w, <<"i","n","g">>) /\ Len(w) > 5 THEN sliceEnd(w, 3)
    ELSE w

\* lightStem with every length test made on the stem that would be returned
lightStemOnStem(w) ==
    IF endsWith(w, <<"i","n","g">>) /\ Len(w) - 3 > 5 THEN sliceEnd(w, 3)
    ELSE IF endsWith(w, <<"e","d">>) /\ Len(w) - 2 > 4 THEN sliceEnd(w, 2)
    ELSE IF endsWith(w, <<"e","s">>) /\ Len(w) - 2 > 4 THEN sliceEnd(w, 2)
    ELSE IF endsWith(w, <<"s">>) /\ Len(w) - 1 > 3 THEN sliceEnd(w, 1)
    ELSE w

lightStem(w) ==
    IF endsWith(w, <<"i","n","g">>) /\ Len(w) > 5 THEN sliceEnd(w, 3)
    ELSE IF endsWith(w, <<"e","d">>) /\ Len(w) > 4 THEN sliceEnd(w, 2)
    ELSE IF endsWith(w, <<"e","s">>) /\ Len(w) > 4 THEN sliceEnd(w, 2)
    ELSE IF endsWith(w, <<"s">>) /\ Len(w) > 3 THEN sliceEnd(w, 1)
    ELSE w

\* text.split(/[^a-z0-9]+/g).filter(Boolean): the maximal runs of [a-z0-9]
RECURSIVE SplitRuns(_, _, _)
SplitRuns(s, cur, out) ==
    IF s = <<>>
    THEN IF cur = <<>> THEN out ELSE Append(out, cur)
    ELSE IF Head(s) \in TokenChars
         THEN SplitRuns(Tail(s), Append(cur, Head(s)), out)
         ELSE SplitRuns(Tail(s), <<>>,
                        IF cur = <<>> THEN out ELSE Append(out, cur))

\* no stopword filter
DropStopNot(ws) == ws

RECURSIVE DropStop(_)
DropStop(ws) ==
    IF ws = <<>> THEN <<>>
    ELSE IF Head(ws) \in STOP THEN DropStop(Tail(ws))
         ELSE <<Head(ws)>> \o DropStop(Tail(ws))

tokenize(text) ==
    LET ws == DropStop(SplitRuns(toLowerCase(text), <<>>, <<>>))
    IN  [i \in 1..Len(ws) |-> lightStem(ws[i])]

\* tokenize(x) for an argument that may be missing: `(text || "")`
tokenizeOrEmpty(x) == ToChars(tokenize(IF x = <<>> THEN <<>> ELSE x[1]))

(* ------------------------------------------------------------------ *)
(* Tokenization in the trainer (train.js)                              *)
(* addDocument of natural.BayesClassifier turns the text into features *)
(* with the package's own tokenizer, stop list and Porter stemmer; the *)
(* package is modelled from its published algorithm.                   *)
(* ------------------------------------------------------------------ *)
\* .replace(/[^\p{L}\p{N}\s]/gu, " ") on a lower-cased text
RECURSIVE BlankOthers(_)
BlankOthers(s) ==
    IF s = <<>> THEN <<>>
    ELSE <<IF Head(s) \in TokenChars \cup SpaceChars THEN Head(s) ELSE " ">>
         \o BlankOthers(Tail(s))

\* .replace(/\s+/g, " ")
RECURSIVE CollapseSpaces(_)
CollapseSpaces(s) ==
    IF s = <<>> THEN <<>>
    ELSE IF Head(s) \in SpaceChars
         THEN <<" ">> \o CollapseSpaces(TrimStart(s))
         ELSE <<Head(s)>> \o CollapseSpaces(Tail(s))

normalize(s) == trim(CollapseSpaces(BlankOthers(ToChars(toLowerCase(s)))))

\* the stop list of the package
NaturalStopwords == {
    <<"a", "b", "o", "u", "t">>, <<"a", "b", "o", "v", "e">>, <<"a", "f", "t", "e", "r">>, <<"a", "g", "a", "i", "n">>, <<"a", "l", "l">>, <<"a", "l", "s", "o">>, <<"a", "m">>, <<"a", "n">>, <<"a", "n", "d">>,
    <<"a", "n", "o", "t", "h", "e", "r">>, <<"a", "n", "y">>, <<"a", "r", "e">>, <<"a", "s">>, <<"a", "t">>, <<"b", "e">>, <<"b", "e", "c", "a", "u", "s", "e">>, <<"b", "e", "e", "n">>,
    <<"b", "e", "f", "o", "r", "e">>, <<"b", "e", "i", "n", "g">>, <<"b", "e", "l", "o", "w">>, <<"b", "e", "t", "w", "e", "e", "n">>, <<"b", "o", "t", "h">>, <<"b", "u", "t">>, <<"b", "y">>, <<"c", "a", "m", "e">>,
    <<"c", "a", "n">>, <<"c", "a", "n", "n", "o", "t">>, <<"c", "o", "m", "e">>, <<"c", "o", "u", "l", "d">>, <<"d", "i", "d">>, <<"d", "o">>, <<"d", "o", "e", "s">>, <<"d", "o", "i", "n", "g">>,
    <<"d", "u", "r", "i", "n", "g">>, <<"e", "a", "c", "h">>, <<"f", "e", "w">>, <<"f", "o", "r">>, <<"f", "r", "o", "m">>, <<"f", "u", "r", "t", "h", "e", "r">>, <<"g", "e", "t">>, <<"g", "o", "t">>,
    <<"h", "a", "s">>, <<"h", "a", "d">>, <<"h", "e">>, <<"h", "a", "v", "e">>, <<"h", "e", "r">>, <<"h", "e", "r", "e">>, <<"h", "i", "m">>, <<"h", "i", "m", "s", "e", "l", "f">>, <<"h", "i", "s">>,
    <<"h", "o", "w">>, <<"i", "f">>, <<"i", "n">>, <<"i", "n", "t", "o">>, <<"i", "s">>, <<"i", "t">>, <<"i", "t", "s">>, <<"i", "t", "s", "e", "l", "f">>, <<"l", "i", "k", "e">>,
    <<"m", "a", "k", "e">>, <<"m", "a", "n", "y">>, <<"m", "e">>, <<"m", "i", "g", "h", "t">>, <<"m", "o", "r", "e">>, <<"m", "o", "s", "t">>, <<"m", "u", "c", "h">>, <<"m", "u", "s", "t">>,
    <<"m", "y">>, <<"m", "y", "s", "e", "l", "f">>, <<"n", "e", "v", "e", "r">>, <<"n", "o", "w">>, <<"o", "f">>, <<"o", "n">>, <<"o", "n", "l", "y">>, <<"o", "r">>, <<"o", "t", "h", "e", "r">>,
    <<"o", "u", "r">>, <<"o", "u", "r", "s">>, <<"o", "u", "r", "s", "e", "l", "v", "e", "s">>, <<"o", "u", "t">>, <<"o", "v", "e", "r">>, <<"o", "w", "n">>, <<"s", "a", "i", "d">>, <<"s", "a", "m", "e">>,
    <<"s", "e", "e">>, <<"s", "h", "o", "u", "l", "d">>, <<"s", "i", "n", "c", "e">>, <<"s", "o">>, <<"s", "o", "m", "e">>, <<"s", "t", "i", "l", "l">>, <<"s", "u", "c", "h">>, <<"t", "a", "k", "e">>,
    <<"t", "h", "a", "n">>, <<"t", "h", "a", "t">>, <<"t", "h", "e">>, <<"t", "h", "e", "i", "r">>, <<"t", "h", "e", "i", "r", "s">>, <<"t", "h", "e", "m">>, <<"t", "h", "e", "m", "s", "e", "l", "v", "e", "s">>,
    <<"t", "h", "e", "n">>, <<"t", "h", "e", "r", "e">>, <<"t", "h", "e", "s", "e">>, <<"t", "h", "e", "y">>, <<"t", "h", "i", "s">>, <<"t", "h", "o", "s", "e">>, <<"t", "h", "r", "o", "u", "g", "h">>, <<"t", "o">>,
    <<"t", "o", "o">>, <<"u", "n", "d", "e", "r">>, <<"u", "n", "t", "i", "l">>, <<"u", "p">>, <<"v", "e", "r", "y">>, <<"w", "a", "s">>, <<"w", "a", "y">>, <<"w", "e">>, <<"w", "e", "l", "l">>,
    <<"w", "e", "r", "e">>, <<"w", "h", "a", "t">>, <<"w", "h", "e", "r", "e">>, <<"w", "h", "e", "n">>, <<"w", "h", "i", "c", "h">>, <<"w", "h", "i", "l", "e">>, <<"w", "h", "o">>, <<"w", "h", "o", "m">>,
    <<"w", "i", "t", "h">>, <<"w", "o", "u", "l", "d">>, <<"w", "h", "y">>, <<"y", "o", "u">>, <<"y", "o", "u", "r">>, <<"y", "o", "u", "r", "s">>, <<"y", "o", "u", "r", "s", "e", "l", "f">>, <<"_">>, <<"$">> }
    \cup {<<c>> : c \in Range(LowerChars) \cup Range(DigitChars)}

\* a letter other than a, e, i, o, u, and other than y after a consonant
RECURSIVE IsCons(_, _)
IsCons(w, i) ==
    IF w[i] \in {"a", "e", "i", "o", "u"} THEN FALSE
    ELSE IF w[i] = "y" THEN i = 1 \/ ~IsCons(w, i - 1)
    ELSE TRUE

\* the measure m of [C](VC)^m[V]
Measure(w) == Cardinality({i \in 1..(Len(w) - 1) : ~IsCons(w, i) /\ IsCons(w, i + 1)})

\* *v*
HasVowel(w) == \E i \in 1..Len(w) : ~IsCons(w, i)

\* *d
EndsDouble(w) == Len(w) >= 2 /\ w[Len(w)] = w[Len(w) - 1] /\ IsCons(w, Len(w))

\* *o
EndsCvc(w) ==
    /\ Len(w) >= 3
    /\ IsCons(w, Len(w) - 2) /\ ~IsCons(w, Len(w) - 1) /\ IsCons(w, Len(w))
    /\ w[Len(w)] \notin {"w", "x", "y"}

\* the first rule <<suffix, replacement>> whose suffix ends w decides: the
\* suffix is replaced when the measure of what precedes it exceeds m
RECURSIVE ReplaceSuffix(_, _, _, _)
ReplaceSuffix(w, rules, i, m) ==
    IF i > Len(rules) THEN w
    ELSE IF endsWith(w, rules[i][1])
         THEN IF Measure(sliceEnd(w, Len(rules[i][1]))) > m
              THEN sliceEnd(w, Len(rules[i][1])) \o rules[i][2]
              ELSE w
         ELSE ReplaceSuffix(w, rules, i + 1, m)

Step1a(w) ==
    IF endsWith(w, <<"s", "s", "e", "s">>) \/ endsWith(w, <<"i", "e", "s">>) THEN sliceEnd(w, 2)
    ELSE IF endsWith(w, <<"s", "s">>) THEN w
    ELSE IF endsWith(w, <<"s">>) THEN sliceEnd(w, 1)
    ELSE w

\* after -ed or -ing has been removed
Step1bTidy(w) ==
    IF endsWith(w, <<"a", "t">>) \/ endsWith(w, <<"b", "l">>) \/ endsWith(w, <<"i", "z">>) THEN w \o <<"e">>
    ELSE IF EndsDouble(w) /\ w[Len(w)] \notin {"l", "s", "z"} THEN sliceEnd(w, 1)
    ELSE IF Measure(w) = 1 /\ EndsCvc(w) THEN w \o <<"e">>
    ELSE w

Step1b(w) ==
    IF endsWith(w, <<"e", "e", "d">>)
    THEN IF Measure(sliceEnd(w, 3)) > 0 THEN sliceEnd(w, 1) ELSE w
    ELSE IF endsWith(w, <<"e", "d">>) /\ HasVowel(sliceEnd(w, 2)) THEN Step1bTidy(sliceEnd(w, 2))
    ELSE IF endsWith(w, <<"i", "n", "g">>) /\ HasVowel(sliceEnd(w, 3)) THEN Step1bTidy(sliceEnd(w, 3))
    ELSE w

Step1c(w) ==
    IF endsWith(w, <<"y">>) /\ HasVowel(sliceEnd(w, 1)) THEN sliceEnd(w, 1) \o <<"i">> ELSE w

Step2Rules == <<
    <<<<"a", "t", "i", "o", "n", "a", "l">>, <<"a", "t", "e">>>>, <<<<"t", "i", "o", "n", "a", "l">>, <<"t", "i", "o", "n">>>>, <<<<"e", "n", "c", "i">>, <<"e", "n", "c", "e">>>>,
    <<<<"a", "n", "c", "i">>, <<"a", "n", "c", "e">>>>, <<<<"i", "z", "e", "r">>, <<"i", "z", "e">>>>, <<<<"a", "b", "l", "i">>, <<"a", "b", "l", "e">>>>,
    <<<<"a", "l", "l", "i">>, <<"a", "l">>>>, <<<<"e", "n", "t", "l", "i">>, <<"e", "n", "t">>>>, <<<<"e", "l", "i">>, <<"e">>>>,
    <<<<"o", "u", "s", "l", "i">>, <<"o", "u", "s">>>>, <<<<"i", "z", "a", "t", "i", "o", "n">>, <<"i", "z", "e">>>>, <<<<"a", "t", "i", "o", "n">>, <<"a", "t", "e">>>>,
    <<<<"a", "t", "o", "r">>, <<"a", "t", "e">>>>, <<<<"a", "l", "i", "s", "m">>, <<"a", "l">>>>, <<<<"i", "v", "e", "n", "e", "s", "s">>, <<"i", "v", "e">>>>,
    <<<<"f", "u", "l", "n", "e", "s", "s">>, <<"f", "u", "l">>>>, <<<<"o", "u", "s", "n", "e", "s", "s">>, <<"o", "u", "s">>>>, <<<<"a", "l", "i", "t", "i">>, <<"a", "l">>>>,
    <<<<"i", "v", "i", "t", "i">>, <<"i", "v", "e">>>>, <<<<"b", "i", "l", "i", "t", "i">>, <<"b", "l", "e">>>> >>

Step3Rules == <<
    <<<<"i", "c", "a", "t", "e">>, <<"i", "c">>>>, <<<<"a", "t", "i", "v", "e">>, <<>> >>, <<<<"a", "l", "i", "z", "e">>, <<"a", "l">>>>,
    <<<<"i", "c", "i", "t", "i">>, <<"i", "c">>>>, <<<<"i", "c", "a", "l">>, <<"i", "c">>>>, <<<<"f", "u", "l">>, <<>> >>, <<<<"n", "e", "s", "s">>, <<>> >> >>

Step4Rules == <<
    <<<<"a", "l">>, <<>> >>, <<<<"a", "n", "c", "e">>, <<>> >>, <<<<"e", "n", "c", "e">>, <<>> >>, <<<<"e", "r">>, <<>> >>,
    <<<<"i", "c">>, <<>> >>, <<<<"a", "b", "l", "e">>, <<>> >>, <<<<"i", "b", "l", "e">>, <<>> >>, <<<<"a", "n", "t">>, <<>> >>,
    <<<<"e", "m", "e", "n", "t">>, <<>> >>, <<<<"m", "e", "n", "t">>, <<>> >>, <<<<"e", "n", "t">>, <<>> >>, <<<<"o", "u">>, <<>> >>,
    <<<<"i", "s", "m">>, <<>> >>, <<<<"a", "t", "e">>, <<>> >>, <<<<"i", "t", "i">>, <<>> >>, <<<<"o", "u", "s">>, <<>> >>,
    <<<<"i", "v", "e">>, <<>> >>, <<<<"i", "z", "e">>, <<>> >> >>

\* -ion goes only after s or t
Step4(w) ==
    IF endsWith(w, <<"i", "o", "n">>)
    THEN IF Len(w) > 3 /\ w[Len(w) - 3] \in {"s", "t"} /\ Measure(sliceEnd(w, 3)) > 1
         THEN sliceEnd(w, 3) ELSE w
    ELSE ReplaceSuffix(w, Step4Rules, 1, 1)

Step5a(w) ==
    IF endsWith(w, <<"e">>)
       /\ (\/ Measure(sliceEnd(w, 1)) > 1
           \/ Measure(sliceEnd(w, 1)) = 1 /\ ~EndsCvc(sliceEnd(w, 1)))
    THEN sliceEnd(w, 1) ELSE w

Step5b(w) == IF Measure(w) > 1 /\ endsWith(w, <<"l", "l">>) THEN sliceEnd(w, 1) ELSE w

\* PorterStemmer.stem
PorterStem(w) ==
    IF Len(w) < 3 THEN w
    ELSE Step5b(Step5a(Step4(ReplaceSuffix(ReplaceSuffix(Step1c(Step1b(Step1a(w))),
                                                         Step2Rules, 1, 0),
                                           Step3Rules, 1, 0))))

RECURSIVE StemKept(_)
StemKept(ws) ==
    IF ws = <<>> THEN <<>>
    ELSE IF Head(ws) \in NaturalStopwords THEN StemKept(Tail(ws))
         ELSE <<PorterStem(Head(ws))>> \o StemKept(Tail(ws))

\* PorterStemmer.tokenizeAndStem(text): the features addDocument counts
tokenizeAndStem(text) == StemKept(SplitRuns(ToChars(toLowerCase(text)), <<>>, <<>>))

\* the features the trainer counts for a row's text:
\* `const text = normalize(r.text); if (text) classifier.addDocument(text, ...)`
TrainerTokens(text) ==
    IF normalize(text) = <<>> THEN <<>> ELSE tokenizeAndStem(normalize(text))

(* ------------------------------------------------------------------ *)
(* Regular expressions of the domain rules                             *)
(* A pattern is a tree; Ends(n, txt, i) is the set of positions at     *)
(* which a match of n that starts at position i (0-based) can end.     *)
(* ------------------------------------------------------------------ *)
Lit(s)  == [t |-> "lit", s |-> s]
Ch(S)   == [t |-> "ch", s |-> S]
Dot     == [t |-> "dot"]
WB      == [t |-> "wb"]
Cat(ns) == [t |-> "cat", ns |-> ns]
Alt(ns) == [t |-> "alt", ns |-> ns]
Opt(n)  == [t |-> "opt", n |-> n]
Star(n) == [t |-> "star", n |-> n]
Plus(n) == [t |-> "plus", n |-> n]

Ws     == Ch(SpaceChars)
WsStar == Star(Ws)
WsPlus == Plus(Ws)
DotStar == Star(Dot)

IsWordAt(txt, k) == k >= 1 /\ k <= Len(txt) /\ txt[k] \in WordChars

RECURSIVE Ends(_, _, _)
RECURSIVE CatEnds(_, _, _)
RECURSIVE StarEnds(_, _, _, _)

Ends(n, txt, i) ==
    CASE n.t = "lit" ->
           IF i + Len(n.s) <= Len(txt) /\ SubSeq(txt, i + 1, i + Len(n.s)) = n.s
           THEN {i + Len(n.s)} ELSE {}
      [] n.t = "ch" ->
           IF i < Len(txt) /\ txt[i + 1] \in n.s THEN {i + 1} ELSE {}
      [] n.t = "dot" ->
           IF i < Len(txt) /\ txt[i + 1] # "\n" THEN {i + 1} ELSE {}
      [] n.t = "wb" ->
           IF IsWordAt(txt, i) # IsWordAt(txt, i + 1) THEN {i} ELSE {}
      [] n.t = "cat" -> CatEnds(n.ns, txt, {i})
      [] n.t = "alt" -> UNION {Ends(n.ns[k], txt, i) : k \in 1..Len(n.ns)}
      [] n.t = "opt" -> {i} \cup Ends(n.n, txt, i)
      [] n.t = "star" -> StarEnds(n.n, txt, {i}, {i})
      [] n.t = "plus" ->
           LET first == Ends(n.n, txt, i) IN StarEnds(n.n, txt, first, first)

CatEnds(ns, txt, S) ==
    IF ns = <<>> \/ S = {} THEN S
    ELSE CatEnds(Tail(ns), txt, UNION {Ends(Head(ns), txt, j) : j \in S})

StarEnds(n, txt, frontier, acc) ==
    LET nxt == UNION {Ends(n, txt, j) : j \in frontier} \ acc
    IN  IF nxt = {} THEN acc ELSE StarEnds(n, txt, nxt, acc \cup nxt)

SetMax(S) == CHOOSE x \in S : \A y \in S : y <= x
SetMin(S) == CHOOSE x \in S : \A y \in S : x <= y

\* the positions at which a match of rx can start in txt, and for each
\* start the positions at which it can end
Search(rx, txt) == [i \in 0..Len(txt) |-> Ends(rx, txt, i)]

CRITICAL_RULES == <<
    [rx |-> Alt(<<Cat(<<Lit(<<"b", "o", "i", "l">>), Opt(Ch({"-"} \cup SpaceChars)), Lit(<<"w", "a", "t", "e", "r">>)>>),
                  Lit(<<"a", "d", "v", "i", "s", "o", "r", "y">>)>>),
     global |-> FALSE, tag |-> "boil_water_advisory"],
    [rx |-> Cat(<<WB,
                  Alt(<<Cat(<<Lit(<<"e">>), Opt(Lit(<<".">>)), WsStar, Lit(<<"c", "o", "l", "i">>)>>),
                        Cat(<<Lit(<<"f", "e", "c", "a", "l", " ">>), Opt(Lit(<<"c", "o", "l", "i", "f", "o", "r", "m">>))>>)>>),
                  WB>>),
     global |-> FALSE, tag |-> "contamination"],
    [rx |-> Cat(<<WB,
                  Alt(<<Cat(<<Lit(<<"s", "e", "w", "a", "g", "e", " ">>), Alt(<<Lit(<<"o", "v", "e", "r", "f", "l", "o", "w">>), Lit(<<"s", "p", "i", "l", "l">>)>>)>>),
                        Cat(<<WB, Lit(<<"S", "S", "O">>), WB>>)>>),
                  WB>>),
     global |-> FALSE, tag |-> "sso"],
    [rx |-> Cat(<<WB, Lit(<<"f", "o", "r", "c", "e">>), WsPlus, Lit(<<"m", "a", "i", "n">>), WB>>),
     global |-> FALSE, tag |-> "force_main"],
    [rx |-> Cat(<<Lit(<<"t", "r", "e", "a", "t", "m", "e", "n", "t">>), WsPlus, Lit(<<"p", "l", "a", "n", "t">>), DotStar,
                  Alt(<<Lit(<<"o", "f", "f", "l", "i", "n", "e">>), Lit(<<"s", "h", "u", "t", "d", "o", "w", "n">>), Lit(<<"d", "o", "w", "n">>)>>)>>),
     global |-> FALSE, tag |-> "plant_offline"],
    [rx |-> Cat(<<Lit(<<"p", "r", "e", "s", "s", "u", "r", "e">>), DotStar,
                  Alt(<<Cat(<<Lit(<<"<">>), WsStar, Lit(<<"2", "0">>), WsStar, Lit(<<"p", "s", "i">>)>>),
                        Cat(<<Lit(<<"b", "e", "l", "o", "w">>), WsStar, Lit(<<"2", "0">>), WsStar, Lit(<<"p", "s", "i">>)>>),
                        Cat(<<Lit(<<"u", "n", "d", "e", "r">>), WsStar, Lit(<<"2", "0">>), WsStar, Lit(<<"p", "s", "i">>)>>)>>)>>),
     global |-> FALSE, tag |-> "pressure_below_20psi"],
    [rx |-> Cat(<<WB,
                  Alt(<<Lit(<<"s", "i", "n", "k", "h", "o", "l", "e">>),
                        Cat(<<Lit(<<"r", "o", "a", "d">>), WsPlus, Lit(<<"u", "n", "d", "e", "r", "m", "i", "n", "e", "d">>)>>)>>),
                  WB>>),
     global |-> FALSE, tag |-> "sinkhole"],
    [rx |-> Cat(<<WB,
                  Alt(<<Lit(<<"2", "4">>), Lit(<<"3", "0">>), Lit(<<"3", "6">>), Lit(<<"4", "2">>)>>),
                  Opt(Alt(<<Cat(<<Opt(Lit(<<"-">>)), Opt(Lit(<<" ">>)), Lit(<<"i", "n", "c", "h">>)>>),
                            Ch({"\""})>>)),
                  WsStar,
                  Opt(Cat(<<Lit(<<"t", "r", "a", "n", "s", "m", "i", "s", "s", "i", "o", "n">>), WsPlus>>)),
                  Lit(<<"m", "a", "i", "n">>), DotStar,
                  Alt(<<Lit(<<"b", "r", "e", "a", "k">>), Lit(<<"r", "u", "p", "t", "u", "r", "e">>)>>)>>),
     global |-> FALSE, tag |-> "transmission_main_break"],
    [rx |-> Cat(<<Lit(<<"n", "o">>), WsPlus, Lit(<<"w", "a", "t", "e", "r">>), DotStar,
                  Alt(<<Lit(<<"h", "o", "s", "p", "i", "t", "a", "l">>), Lit(<<"s", "c", "h", "o", "o", "l">>),
                        Cat(<<Lit(<<"f", "i", "r", "e">>), WsPlus, Lit(<<"s", "t", "a", "t", "i", "o", "n">>)>>)>>)>>),
     global |-> FALSE, tag |-> "critical_facility_outage"],
    [rx |-> Cat(<<Lit(<<"c", "h", "l", "o", "r", "i", "n", "e">>), WsPlus,
                  Alt(<<Lit(<<"l", "e", "a", "k">>), Lit(<<"r", "e", "l", "e", "a", "s", "e">>), Lit(<<"s", "p", "i", "l", "l">>)>>)>>),
     global |-> FALSE, tag |-> "chlorine_release"] >>

HIGH_RULES == <<
    [rx |-> Alt(<<Cat(<<Lit(<<"w", "a", "t", "e", "r">>), WsPlus, Lit(<<"m", "a", "i", "n">>), WsPlus, Lit(<<"b", "r", "e", "a", "k">>)>>),
                  Cat(<<Lit(<<"m", "a", "j", "o", "r">>), WsPlus, Lit(<<"m", "a", "i", "n">>), WsPlus, Lit(<<"b", "r", "e", "a", "k">>)>>)>>),
     global |-> FALSE, tag |-> "water_main_break"],
    [rx |-> Cat(<<WB, Alt(<<Lit(<<"m", "a", "j", "o", "r">>), Lit(<<"l", "a", "r", "g", "e">>)>>), WsPlus, Lit(<<"l", "e", "a", "k">>), WB>>),
     global |-> FALSE, tag |-> "large_leak"],
    [rx |-> Cat(<<Lit(<<"l", "o", "w">>), WsPlus, Lit(<<"p", "r", "e", "s", "s", "u", "r", "e">>), DotStar,
                  Alt(<<Lit(<<"a", "r", "e", "a">>), Lit(<<"z", "o", "n", "e">>), Lit(<<"w", "i", "d", "e", "s", "p", "r", "e", "a", "d">>)>>)>>),
     global |-> FALSE, tag |-> "widespread_low_pressure"],
    [rx |-> Cat(<<Lit(<<"p", "u", "m", "p">>), WsPlus, Lit(<<"s", "t", "a", "t", "i", "o", "n">>), WsPlus,
                  Alt(<<Lit(<<"f", "a", "i", "l", "u", "r", "e">>), Lit(<<"a", "l", "a", "r", "m">>)>>)>>),
     global |-> FALSE, tag |-> "pump_station"],
    [rx |-> Alt(<<Cat(<<Lit(<<"b", "a", "c", "k", "f", "l", "o", "w">>), WsPlus,
                        Alt(<<Lit(<<"e", "v", "e", "n", "t">>), Lit(<<"i", "n", "c", "i", "d", "e", "n", "t">>)>>)>>),
                  Cat(<<Lit(<<"c", "r", "o", "s", "s">>), Opt(Ch({"-"} \cup SpaceChars)), Lit(<<"c", "o", "n", "n", "e", "c", "t", "i", "o", "n">>)>>)>>),
     global |-> FALSE, tag |-> "backflow_event"],
    [rx |-> Cat(<<Lit(<<"v", "a", "l", "v", "e">>), WsPlus,
                  Alt(<<Lit(<<"f", "a", "i", "l", "u", "r", "e">>),
                        Cat(<<Lit(<<"s", "t", "u", "c", "k">>), WsPlus,
                              Alt(<<Lit(<<"c", "l", "o", "s", "e", "d">>), Lit(<<"o", "p", "e", "n">>)>>)>>)>>)>>),
     global |-> FALSE, tag |-> "valve_failure"],
    [rx |-> Cat(<<Lit(<<"r", "o", "a", "d">>), WsPlus, Alt(<<Lit(<<"c", "l", "o", "s", "u", "r", "e">>), Lit(<<"f", "l", "o", "o", "d", "e", "d">>)>>)>>),
     global |-> FALSE, tag |-> "road_impact"] >>

(* ------------------------------------------------------------------ *)
(* Numbers: exact rationals <<n, d>> with d > 0, in lowest terms       *)
(* ------------------------------------------------------------------ *)
RECURSIVE GCD(_, _)
GCD(a, b) == IF b = 0 THEN a ELSE GCD(b, a % b)

Abs(x) == IF x < 0 THEN -x ELSE x

Rat(n, d) ==
    LET g == GCD(Abs(n), Abs(d))
    IN  IF d < 0 THEN <<(-n) \div g, (-d) \div g>> ELSE <<n \div g, d \div g>>

RZero == <<0, 1>>
ROne  == <<1, 1>>

RMul(a, b) ==
    LET g1 == GCD(Abs(a[1]), b[2])
        g2 == GCD(Abs(b[1]), a[2])
    IN  Rat((a[1] \div g1) * (b[1] \div g2), (a[2] \div g2) * (b[2] \div g1))

RInv(a) == Rat(a[2], a[1])
RDiv(a, b) == RMul(a, RInv(b))

RAdd(a, b) ==
    LET g == GCD(a[2], b[2])
    IN  Rat(a[1] * (b[2] \div g) + b[1] * (a[2] \div g), (a[2] \div g) * b[2])

RLess(a, b) ==
    LET g == GCD(a[2], b[2])
    IN  a[1] * (b[2] \div g) < b[1] * (a[2] \div g)

RLeq(a, b) == ~RLess(b, a)

\* n1/d1 < n2/d2 on non-negative fractions by their continued fractions:
\* no product is formed, so fractions of any size can be compared
RECURSIVE CfLess(_, _, _, _)
CfLess(n1, d1, n2, d2) ==
    IF n1 \div d1 # n2 \div d2 THEN n1 \div d1 < n2 \div d2
    ELSE IF n1 % d1 = 0 THEN n2 % d2 # 0
    ELSE IF n2 % d2 = 0 THEN FALSE
    ELSE CfLess(d2, n2 % d2, d1, n1 % d1)

\* a < b and a <= b on non-negative rationals such as probabilities
PLess(a, b) == CfLess(a[1], a[2], b[1], b[2])
PLeq(a, b) == ~PLess(b, a)

RECURSIVE RPow(_, _)
RPow(a, k) == IF k = 0 THEN ROne ELSE RMul(a, RPow(a, k - 1))

\* Tunable boosts (log-space), in units of 1.0
BOOST_HIGH == 1
BOOST_CRITICAL == 2

\* Math.exp(1): the rational 19/7 stands for e; only e > 1 and the
\* multiplicativity of exp are used
ExpOne == <<19, 7>>

\* Math.exp(k) for an integer k
ExpInt(k) == IF k >= 0 THEN RPow(ExpOne, k) ELSE RInv(RPow(ExpOne, -k))

\* a log-space score ln(q) + b
LogScore(q, b) == [q |-> q, b |-> b]

\* Math.log(num) - Math.log(den)
LogRatio(num, den) == LogScore(Rat(num, den), 0)

\* score += Math.log(num) - Math.log(den)
LsAddLogRatio(s, num, den) == LogScore(RMul(s.q, Rat(num, den)), s.b)

\* logScores.X -= BOOST
LsSubBoost(s, k) == LogScore(s.q, s.b - k)

\* logScores.X += BOOST
LsAddBoost(s, k) == LogScore(s.q, s.b + k)

\* Math.exp(v - max)
ExpDiff(v, max) == RMul(RDiv(v.q, max.q), ExpInt(v.b - max.b))

\* v < w on log-scores
LsLess(v, w) == RLess(ExpDiff(v, w), ROne)

(* ------------------------------------------------------------------ *)
(* JavaScript objects parsed from the artifact                         *)
(* ------------------------------------------------------------------ *)
Undefined == <<>>
Some(v) == <<v>>
IsDefined(o) == o # Undefined

\* a parsed JSON object with the properties the loader looks at
JObj(features, classifier, classFeatures, classTotals, totalExamples, smoothing) ==
    [ features |-> features, classifier |-> classifier,
      classFeatures |-> classFeatures, classTotals |-> classTotals,
      totalExamples |-> totalExamples, smoothing |-> smoothing ]

\* F(v) with v computed before F runs: a statement completes before the
\* next one starts
Strict(v, F(_)) == CHOOSE r \in {F(x) : x \in {v}} : TRUE

\* x ?? dflt
Coalesce(o, dflt) == IF IsDefined(o) THEN o[1] ELSE dflt

\* the only property of Object.prototype whose name is a possible token
\* (lower-case alphanumeric): features["constructor"] is inherited
ConstructorKey == <<"c", "o", "n", "s", "t", "r", "u", "c", "t", "o", "r">>

\* features[tok]: own property, else the prototype chain
FeatureLookup(features, tok) ==
    IF tok \in DOMAIN features
    THEN [def |-> TRUE, own |-> TRUE, idx |-> features[tok]]
    ELSE IF tok = ConstructorKey
         THEN [def |-> TRUE, own |-> FALSE, idx |-> -1]
         ELSE [def |-> FALSE, own |-> FALSE, idx |-> -1]

\* a JavaScript object whose key order matters is an ordered list of
\* entries [k, v]
Entry(k, v) == [k |-> k, v |-> v]

\* the tuple <<f[1], ..., f[n]>>
RECURSIVE ToTuple(_, _)
ToTuple(f, n) == IF n = 0 THEN <<>> ELSE Append(ToTuple(f, n - 1), f[n])

\* Object.keys
ObjectKeys(entries) == ToTuple([i \in 1..Len(entries) |-> entries[i].k], Len(entries))

\* Object.values
ObjectValues(entries) == ToTuple([i \in 1..Len(entries) |-> entries[i].v], Len(entries))

\* Object.prototype.hasOwnProperty.call(obj, key)
HasKey(entries, key) == \E i \in 1..Len(entries) : entries[i].k = key

\* obj[key] for an own property
Get(entries, key) == entries[CHOOSE i \in 1..Len(entries) : entries[i].k = key].v

(* ------------------------------------------------------------------ *)
(* Requests                                                            *)
(* ------------------------------------------------------------------ *)
Body(title, description) == [title |-> title, description |-> description]

\* req.body values: a property is <<>> when the JSON body lacks it
Bodies == <<
    Body(Undefined, Some(<<>>)),
    Body(Some(<<"T", "h", "e", ",", " ", "a">>), Some(<<" ", "o", "f", " ", "T", "H", "E", " ">>)),
    Body(Some(<<"p", "i", "p", "e", " ", "i", "s", "s", "u", "e">>), Some(<<>>)),
    Body(Some(<<"W", "a", "t", "e", "r", " ", "m", "a", "i", "n", " ", "b", "r", "e", "a", "k">>), Some(<<"B", "o", "i", "l", "-", "w", "a", "t", "e", "r", " ", "a", "d", "v", "i", "s", "o", "r", "y", " ", "i", "s", "s", "u", "e", "d">>)) >>

BodyIds == 1..Len(Bodies)

\* texts on which smartClassify and applyDomainBoost are called directly
Texts == <<
    <<"p", "i", "p", "e", " ", "i", "s", "s", "u", "e">>,
    <<"p", "i", "p", "e", " ", "i", "s", "s", "u", "e", ",", " ", "b", "o", "i", "l", " ", "w", "a", "t", "e", "r", " ", "a", "d", "v", "i", "s", "o", "r", "y", " ", "i", "s", "s", "u", "e", "d">>,
    <<"F", "o", "r", "c", "e", " ", "m", "a", "i", "n", " ", "h", "i", "t", " ", "b", "y", " ", "s", "e", "w", "a", "g", "e", " ", "s", "p", "i", "l", "l">>,
    <<"m", "a", "j", "o", "r", " ", "l", "e", "a", "k", " ", "a", "n", "d", " ", "r", "o", "a", "d", " ", "c", "l", "o", "s", "u", "r", "e">>,
    <<"w", "a", "t", "e", "r", " ", "m", "a", "i", "n", " ", "b", "r", "e", "a", "k", " ", "a", "f", "t", "e", "r", " ", "s", "e", "w", "a", "g", "e", " ", "o", "v", "e", "r", "f", "l", "o", "w">>,
    <<"S", "S", "O", " ", "a", "t", " ", "p", "u", "m", "p", " ", "s", "t", "a", "t", "i", "o", "n", " ", "a", "l", "a", "r", "m">>,
    <<>>,
    <<"O", "f", " ", "t", "h", "e", " ", "A", "N", "D", ",", " ", "t", "o", ";", " ", "a", " ", "-", "-", " ", "i", "s", "!">> >>

TextIds == 1..Len(Texts)

\* single words on which lightStem and tokenize are called directly
Words == <<
    <<"r", "u", "n", "n", "i", "n", "g">>, <<"r", "i", "n", "g", "s">>, <<"r", "i", "n", "g">>, <<"u", "s", "i", "n", "g">>, <<"s", "e", "e", "i", "n", "g">>, <<"b", "a", "s", "e", "d">>, <<"u", "s", "e", "d">>,
    <<"b", "o", "x", "e", "s">>, <<"g", "o", "e", "s">>, <<"c", "a", "t", "s">>, <<"g", "a", "s">>, <<"p", "a", "s", "s">>, <<"i", "n", "s", "p", "e", "c", "t", "i", "o", "n", "s">>, <<"i", "n", "s", "p", "e", "c", "t", "i", "o", "n">>,
    <<"n", "u", "r", "s", "e", "d">>, <<"t", "e", "s", "t", "i", "n", "g">>, <<"p", "i", "p", "e", "l", "i", "n", "e", "s">>, <<"v", "a", "l", "v", "e">> >>

WordIds == 1..Len(Words)

\* the arguments of the direct calls of tokenize: a missing text, the
\* texts and the words
TokenizeArgs ==
    <<Undefined>> \o [t \in TextIds |-> Some(Texts[t])] \o [w \in WordIds |-> Some(Words[w])]

TokenizeArgIds == 1..Len(TokenizeArgs)

\* String(body.title ?? "")
StringOr(o) == Coalesce(o, <<>>)

\* `${title ?? ""} ${description ?? ""}`.trim()
RawTextOf(title, description) == trim(title \o <<" ">> \o description)

\* [...tokenize(title), ...tokenize(description)]
TokensOf(title, description) == tokenize(title) \o tokenize(description)

(* ------------------------------------------------------------------ *)
(* RegExp.prototype.test                                               *)
(* ------------------------------------------------------------------ *)
\* the texts the rules are tested on: the lower-cased raw text of a request
\* or of a direct call
RuleTexts ==
    { toLowerCase(RawTextOf(StringOr(Bodies[b].title), StringOr(Bodies[b].description))) :
        b \in BodyIds }
    \cup { toLowerCase(RawTextOf(Texts[t], <<>>)) : t \in TextIds }

\* Search of the pattern of every rule of a list on every text, computed once
SearchAll(rules) ==
    [j \in 1..Len(rules) |-> [txt \in RuleTexts |-> Search(rules[j].rx, txt)]]

SearchTable == [critical |-> SearchAll(CRITICAL_RULES), high |-> SearchAll(HIGH_RULES)]

\* RegExp.prototype.test had the rules been written with the g flag
RxTestSticky(re, ends, n, li) ==
    LET starts == {i \in li..n : ends[i] # {}}
    IN  [ m  |-> starts # {},
          li |-> IF starts # {} THEN SetMax(ends[SetMin(starts)]) ELSE 0 ]

\* RegExp.prototype.test on a RegExp object whose lastIndex is li, ends
\* being Search(re.rx, txt): the search starts at lastIndex only for a
\* global pattern, and only a global pattern writes lastIndex back.
RxTest(re, ends, n, li) ==
    LET from   == IF re.global THEN li ELSE 0
        starts == {i \in from..n : ends[i] # {}}
        found  == starts # {}
    IN  [ m  |-> found,
          li |-> IF ~re.global THEN li
                 ELSE IF found THEN SetMax(ends[SetMin(starts)])
                 ELSE 0 ]

(* ------------------------------------------------------------------ *)
(* Domain boost                                                        *)
(* ------------------------------------------------------------------ *)
\* rule.rx.test(text) for every rule of a list, each on its own RegExp
\* object; found is the list's part of SearchTable
TestAll(rules, found, text, li) ==
    ToTuple([j \in 1..Len(rules) |-> RxTest(rules[j], found[j][text], Len(text), li[j])],
            Len(rules))

\* the tags pushed by one `for (const rule of RULES)` loop, from rule j on
RECURSIVE TagsFrom(_, _, _)
TagsFrom(rules, fired, j) ==
    IF j > Len(rules) THEN <<>>
    ELSE (IF fired[j].m THEN <<rules[j].tag>> ELSE <<>>) \o TagsFrom(rules, fired, j + 1)

\* the boost one loop adds to its class: `logScores.X += BOOST` once per
\* rule that fired
BoostOf(fired, boost) == boost * Cardinality({j \in 1..Len(fired) : fired[j].m})

\* lastIndex of the RegExp objects after the tests
LastIndexes(fired) == ToTuple([j \in 1..Len(fired) |-> fired[j].li], Len(fired))

\* logScores[e.k] after both loops: the boosts go to the own properties
\* CRITICAL and HIGH only
BoostedScore(e, firedC, firedH) ==
    IF e.k = "CRITICAL" THEN LsAddBoost(e.v, BoostOf(firedC, BOOST_CRITICAL))
    ELSE IF e.k = "HIGH" THEN LsAddBoost(e.v, BoostOf(firedH, BOOST_HIGH))
    ELSE e.v

\* the two loops of applyDomainBoost, given the outcome of every test
BoostWith(logScores, firedC, firedH) ==
    [scores |-> ToTuple([i \in 1..Len(logScores) |->
                           Entry(logScores[i].k, BoostedScore(logScores[i], firedC, firedH))],
                        Len(logScores)),
     tags |-> TagsFrom(CRITICAL_RULES, firedC, 1) \o TagsFrom(HIGH_RULES, firedH, 1),
     li |-> [critical |-> LastIndexes(firedC), high |-> LastIndexes(firedH)]]

\* applyDomainBoost(rawText, logScores) with the RegExp objects in state li
applyDomainBoost(rawText, logScores, li) ==
    Strict(TestAll(CRITICAL_RULES, SearchTable.critical, toLowerCase(rawText), li.critical),
           LAMBDA firedC :
               Strict(TestAll(HIGH_RULES, SearchTable.high, toLowerCase(rawText), li.high),
                      LAMBDA firedH : BoostWith(logScores, firedC, firedH)))

(* ------------------------------------------------------------------ *)
(* Naive Bayes scoring                                                 *)
(* ------------------------------------------------------------------ *)
RECURSIVE SumCounts(_, _)
SumCounts(map, keys) ==
    IF keys = {} THEN 0
    ELSE LET k == CHOOSE x \in keys : TRUE
         IN  map[k] + SumCounts(map, keys \ {k})

computeClassWordTotals(classFeatures) ==
    [label \in DOMAIN classFeatures |->
        SumCounts(classFeatures[label], DOMAIN classFeatures[label])]

\* x[key] ?? dflt on a map
GetOr(map, key, dflt) == IF key \in DOMAIN map THEN map[key] ELSE dflt

\* the likelihood loop `for (const tok of tokens)` from token i on
RECURSIVE Likelihood(_, _, _, _, _, _, _)
Likelihood(score, tokens, i, features, cf, smoothing, denom) ==
    IF i > Len(tokens) THEN score
    ELSE LET f == FeatureLookup(features, tokens[i])
             count == IF f.own THEN GetOr(cf, f.idx, 0) ELSE 0
         IN  Strict(IF f.def
                    THEN LsAddLogRatio(score, count + smoothing, denom)
                    ELSE score,
                    LAMBDA s : Likelihood(s, tokens, i + 1, features, cf, smoothing, denom))

\* logScores[label] as the loop `for (const label of labels)` leaves it
ClassScore(model, tokens, label, classWordTotals) ==
    Likelihood(LogRatio(Get(model.classTotals[1], label) + 1,
                        Coalesce(model.totalExamples, 1) + Len(model.classTotals[1])),
               tokens, 1, model.features,
               GetOr(model.classFeatures, label, <<>>),
               model.smoothing,
               GetOr(classWordTotals, label, 0)
                   + model.smoothing * Cardinality(DOMAIN model.features))

\* logScores of classifyTokens before the boost, in the order of labels
LogScoresOf(model, tokens, labels, classWordTotals) ==
    ToTuple([i \in 1..Len(labels) |->
                Entry(labels[i], ClassScore(model, tokens, labels[i], classWordTotals))],
            Len(labels))

RawLogScores(model, tokens) ==
    LogScoresOf(model, tokens, ObjectKeys(model.classTotals[1]),
                computeClassWordTotals(model.classFeatures))

\* Math.max(...values) on log-scores
RECURSIVE MaxScore(_, _)
MaxScore(values, i) ==
    IF i = Len(values) THEN values[i]
    ELSE Strict(MaxScore(values, i + 1),
                LAMBDA rest : IF LsLess(values[i], rest) THEN rest ELSE values[i])

\* values.reduce((a, b) => a + b, 0)
RECURSIVE RSum(_, _)
RSum(values, n) ==
    IF n = 0 THEN RZero ELSE Strict(RSum(values, n - 1), LAMBDA sum : RAdd(sum, values[n]))

\* x || 1
OrOne(x) == IF x = RZero THEN ROne ELSE x

\* Z = sum of exps, or 1 when the sum is falsy
SoftmaxZ(exps) == OrOne(RSum(ObjectValues(exps), Len(exps)))

\* exps of classifyTokens
Exps(logScores, max) ==
    ToTuple([i \in 1..Len(logScores) |->
               Entry(logScores[i].k, ExpDiff(logScores[i].v, max))],
            Len(logScores))

\* probs of classifyTokens
Normalize(exps, Z) ==
    ToTuple([i \in 1..Len(exps) |-> Entry(exps[i].k, RDiv(exps[i].v, Z))], Len(exps))

\* probs without the division by Z
NormalizeExpsNot(exps) == exps

NormalizeExps(exps) == Strict(SoftmaxZ(exps), LAMBDA Z : Normalize(exps, Z))

\* softmax of the boosted log-scores
Softmax(logScores) ==
    Strict(MaxScore(ObjectValues(logScores), 1),
           LAMBDA max : Strict(Exps(logScores, max), LAMBDA exps : NormalizeExps(exps)))

\* the loop with >= in place of >
RECURSIVE ArgMaxLast(_, _, _, _)
ArgMaxLast(probs, labels, i, best) ==
    IF i > Len(labels) THEN best
    ELSE IF RLeq(Get(probs, best), Get(probs, labels[i]))
         THEN ArgMaxLast(probs, labels, i + 1, labels[i])
         ELSE ArgMaxLast(probs, labels, i + 1, best)

\* let best = labels[0]; for (const l of labels) if (probs[l] > probs[best]) best = l
RECURSIVE ArgMax(_, _, _, _)
ArgMax(probs, labels, i, best) ==
    IF i > Len(labels) THEN best
    ELSE IF RLess(Get(probs, best), Get(probs, labels[i]))
         THEN ArgMax(probs, labels, i + 1, labels[i])
         ELSE ArgMax(probs, labels, i + 1, best)

NoProbs == <<>>

\* the exception classifyTokens throws: err is its message or kind
Thrown(err, li) ==
    [err |-> err, label |-> "", confidence |-> RZero, tags |-> <<>>,
     probs |-> NoProbs, li |-> li]

\* return { label: best, confidence: probs[best] ?? 0, tags }
Returned(best, probs, boosted) ==
    [err |-> "", label |-> best, confidence |-> Get(probs, best),
     tags |-> boosted.tags, probs |-> probs, li |-> boosted.li]

\* classifyTokens from the softmax on
WithProbs(labels, probs, boosted) ==
    Strict(probs, LAMBDA p : Returned(ArgMax(p, labels, 1, labels[1]), p, boosted))

\* classifyTokens from the boost on
WithBoost(labels, boosted) ==
    Strict(boosted, LAMBDA b : WithProbs(labels, Softmax(b.scores), b))

\* classifyTokens(tokens, rawTextForRules) on MODEL = model, RegExp state li:
\* err is "" on return, else the message or kind of the exception thrown
classifyTokens(model, tokens, rawTextForRules, li) ==
    IF ~IsDefined(model.classTotals) THEN Thrown("TypeError", li)
    ELSE IF Len(model.classTotals[1]) = 0 THEN Thrown("Not Trained", li)
    ELSE Strict(RawLogScores(model, tokens),
                LAMBDA logScores : WithBoost(ObjectKeys(model.classTotals[1]),
                                             applyDomainBoost(rawTextForRules, logScores, li)))

(* ------------------------------------------------------------------ *)
(* Model artifacts that can be on disk                                 *)
(* ------------------------------------------------------------------ *)
NoObj == JObj(Undefined, Undefined, Undefined, Undefined, Undefined, Undefined)

\* parameters of a model trained on four classes
FeaturesA == (<<"p", "i", "p", "e">> :> 0) @@ (<<"i", "s", "s", "u", "e">> :> 1) @@ (<<"l", "e", "a", "k">> :> 2) @@
             (<<"w", "a", "t", "e", "r">> :> 3) @@ (<<"m", "a", "i", "n">> :> 4) @@ (<<"b", "r", "e", "a", "k">> :> 5) @@
             (<<"b", "o", "i", "l">> :> 6)
ClassFeaturesA == [ LOW |-> (0 :> 1) @@ (1 :> 1),
                    MEDIUM |-> (1 :> 1) @@ (2 :> 1),
                    HIGH |-> (2 :> 1) @@ (3 :> 1) @@ (4 :> 1) @@ (5 :> 1),
                    CRITICAL |-> (3 :> 1) @@ (6 :> 1) ]
ClassTotalsA == << Entry("LOW", 2), Entry("MEDIUM", 2), Entry("HIGH", 2),
                   Entry("CRITICAL", 2) >>
InnerA == JObj(Undefined, Undefined, Some(ClassFeaturesA), Some(ClassTotalsA),
               Some(8), Some(1))

\* parameters of a second model: two classes, smoothing 2
FeaturesB == (<<"l", "e", "a", "k">> :> 0) @@ (<<"p", "i", "p", "e">> :> 1)
ClassFeaturesB == [ HIGH |-> (0 :> 2), LOW |-> (1 :> 1) ]
ClassTotalsB == << Entry("HIGH", 1), Entry("LOW", 1) >>

\* parameters of a third model: "boil" and "water" were seen in LOW
\* documents only, "pipe" in CRITICAL documents only
FeaturesC == (<<"p", "i", "p", "e">> :> 0) @@ (<<"b", "o", "i", "l">> :> 1) @@
             (<<"w", "a", "t", "e", "r">> :> 2) @@ (<<"a", "d", "v", "i", "s", "o", "r", "i">> :> 3)
ClassFeaturesC == [ LOW |-> (1 :> 13) @@ (2 :> 13) @@ (3 :> 2), CRITICAL |-> (0 :> 4) ]
ClassTotalsC == << Entry("LOW", 14), Entry("CRITICAL", 4) >>

Art(kind, obj) == [kind |-> kind, obj |-> obj]

\* kind "absent": readFile rejects; "garbage": JSON.parse throws;
\* "null": the file holds the JSON value null; "object": a JSON object
Artifacts == <<
    \* 1: no file
    Art("absent", NoObj),
    \* 2: a file that is not JSON
    Art("garbage", NoObj),
    \* 3: the JSON value null
    Art("null", NoObj),
    \* 4: what the trainer writes: {classifier: {features, classifier: {...}}}
    Art("object", JObj(Undefined,
          Some(JObj(Some(FeaturesA), Some(InnerA), Undefined, Undefined, Undefined, Undefined)),
          Undefined, Undefined, Undefined, Undefined)),
    \* 5: the flat shape with the same parameters: {classifier: {features, classFeatures, ...}}
    Art("object", JObj(Undefined,
          Some(JObj(Some(FeaturesA), Undefined, Some(ClassFeaturesA), Some(ClassTotalsA),
                    Some(8), Some(1))),
          Undefined, Undefined, Undefined, Undefined)),
    \* 6: flat, no root wrapper, other parameters, no totalExamples
    Art("object", JObj(Some(FeaturesB), Undefined, Some(ClassFeaturesB), Some(ClassTotalsB),
                       Undefined, Some(2))),
    \* 7: the trainer's shape without classTotals
    Art("object", JObj(Undefined,
          Some(JObj(Some(FeaturesA),
                    Some(JObj(Undefined, Undefined, Some(ClassFeaturesA), Undefined,
                              Some(8), Some(1))),
                    Undefined, Undefined, Undefined, Undefined)),
          Undefined, Undefined, Undefined, Undefined)),
    \* 8: flat without features
    Art("object", JObj(Undefined,
          Some(JObj(Undefined, Undefined, Some(ClassFeaturesA), Some(ClassTotalsA),
                    Some(8), Some(1))),
          Undefined, Undefined, Undefined, Undefined)),
    \* 9: the trainer's shape without classFeatures
    Art("object", JObj(Undefined,
          Some(JObj(Some(FeaturesA),
                    Some(JObj(Undefined, Undefined, Undefined, Some(ClassTotalsA),
                              Some(8), Some(1))),
                    Undefined, Undefined, Undefined, Undefined)),
          Undefined, Undefined, Undefined, Undefined)),
    \* 10: flat with an empty classTotals object, no smoothing
    Art("object", JObj(Undefined,
          Some(JObj(Some(FeaturesB), Undefined, Some(ClassFeaturesB), Some(<<>>),
                    Some(2), Undefined)),
          Undefined, Undefined, Undefined, Undefined)),
    \* 11: what the trainer writes after training on other data
    Art("object", JObj(Undefined,
          Some(JObj(Some(FeaturesB),
                    Some(JObj(Undefined, Undefined, Some(ClassFeaturesB), Some(ClassTotalsB),
                              Some(2), Some(2))),
                    Undefined, Undefined, Undefined, Undefined)),
          Undefined, Undefined, Undefined, Undefined)),
    \* 12: the trainer's shape with the parameters of the third model
    Art("object", JObj(Undefined,
          Some(JObj(Some(FeaturesC),
                    Some(JObj(Undefined, Undefined, Some(ClassFeaturesC), Some(ClassTotalsC),
                              Some(18), Some(1))),
                    Undefined, Undefined, Undefined, Undefined)),
          Undefined, Undefined, Undefined, Undefined)) >>

\* the artifacts the request lifecycle is explored over
ArtifactIds == 1..11

\* the artifacts on disk when functions are called directly: no file, the
\* two shapes of the first model, a shape without classTotals, the third
\* model
CallArtifactIds == {1, 4, 5, 7, 12}

\* the artifacts a run of the trainer can write
TrainerArtifacts == {4, 11}

\* what the fallback path holds when the process starts: nothing, or an
\* older flat model
FallbackArtifacts == {1, 6}

\* MODEL_PATHS, by index
MODEL_PATHS == <<1, 2>>

(* ------------------------------------------------------------------ *)
(* JSON text: JSON.stringify in the trainer, JSON.parse in the loader  *)
(* ------------------------------------------------------------------ *)
\* a JSON value: a non-negative integer or an object, the members of an
\* object in order
JNumber(n) == [t |-> "number", n |-> n, es |-> <<>>]
JObject(es) == [t |-> "object", n |-> 0, es |-> es]

\* the decimal digits of a non-negative integer
RECURSIVE NumberToString(_)
NumberToString(n) ==
    IF n < 10 THEN <<DigitChars[n + 1]>>
    ELSE Append(NumberToString(n \div 10), DigitChars[(n % 10) + 1])

DigitValue(c) == (CHOOSE d \in 1..10 : DigitChars[d] = c) - 1

\* the integer a run of decimal digits denotes
RECURSIVE NumberOf(_)
NumberOf(ds) ==
    IF ds = <<>> THEN 0
    ELSE 10 * NumberOf(SubSeq(ds, 1, Len(ds) - 1)) + DigitValue(ds[Len(ds)])

\* JSON.stringify(value): no white space, members in property order
RECURSIVE JSONstringify(_)
RECURSIVE StringifyMembers(_, _)
StringifyMembers(es, i) ==
    IF i > Len(es) THEN <<>>
    ELSE (IF i > 1 THEN <<",">> ELSE <<>>)
         \o <<"\"">> \o es[i].k \o <<"\"", ":">>
         \o JSONstringify(es[i].v) \o StringifyMembers(es, i + 1)
JSONstringify(v) ==
    IF v.t = "number" THEN NumberToString(v.n)
    ELSE <<"{">> \o StringifyMembers(v.es, 1) \o <<"}">>

\* the first position from i on that holds no digit
DigitsEnd(s, i) ==
    CHOOSE j \in i..(Len(s) + 1) :
        /\ j = Len(s) + 1 \/ s[j] \notin Range(DigitChars)
        /\ \A m \in i..(j - 1) : s[m] \in Range(DigitChars)

\* the position of the quote that closes a string starting at i
QuoteEnd(s, i) ==
    CHOOSE j \in i..Len(s) : s[j] = "\"" /\ \A m \in i..(j - 1) : s[m] # "\""

\* JSON.parse on the texts JSON.stringify produces: the value that starts
\* at position i and the position after it
RECURSIVE ParseValue(_, _)
RECURSIVE ParseMembers(_, _, _)
AfterMember(s, acc, key, val) ==
    IF s[val.next] = ","
    THEN ParseMembers(s, val.next + 1, Append(acc, Entry(key, val.v)))
    ELSE [v |-> JObject(Append(acc, Entry(key, val.v))), next |-> val.next + 1]
MemberAt(s, acc, i, q) ==
    Strict(ParseValue(s, q + 2), LAMBDA val : AfterMember(s, acc, SubSeq(s, i + 1, q - 1), val))
ParseMembers(s, i, acc) ==
    Strict(QuoteEnd(s, i + 1), LAMBDA q : MemberAt(s, acc, i, q))
NumberAt(s, i, j) == [v |-> JNumber(NumberOf(SubSeq(s, i, j - 1))), next |-> j]
ParseValue(s, i) ==
    IF s[i] = "{"
    THEN IF s[i + 1] = "}" THEN [v |-> JObject(<<>>), next |-> i + 2]
         ELSE ParseMembers(s, i + 1, <<>>)
    ELSE Strict(DigitsEnd(s, i), LAMBDA j : NumberAt(s, i, j))
JSONparse(s) == ParseValue(s, 1).v

\* property names and class labels as they are written in the text
PropText == [ features |-> <<"f", "e", "a", "t", "u", "r", "e", "s">>, classifier |-> <<"c", "l", "a", "s", "s", "i", "f", "i", "e", "r">>,
              classFeatures |-> <<"c", "l", "a", "s", "s", "F", "e", "a", "t", "u", "r", "e", "s">>, classTotals |-> <<"c", "l", "a", "s", "s", "T", "o", "t", "a", "l", "s">>,
              totalExamples |-> <<"t", "o", "t", "a", "l", "E", "x", "a", "m", "p", "l", "e", "s">>, smoothing |-> <<"s", "m", "o", "o", "t", "h", "i", "n", "g">>,
              eventsCount |-> <<"_", "e", "v", "e", "n", "t", "s", "C", "o", "u", "n", "t">> ]
LabelText == [ LOW |-> <<"L", "O", "W">>, MEDIUM |-> <<"M", "E", "D", "I", "U", "M">>, HIGH |-> <<"H", "I", "G", "H">>,
               CRITICAL |-> <<"C", "R", "I", "T", "I", "C", "A", "L">> ]
LabelOf(chars) == CHOOSE l \in DOMAIN LabelText : LabelText[l] = chars

\* the elements of a finite set, in the order a JavaScript object lists
\* integer keys: ascending
RECURSIVE Ascending(_)
Ascending(S) ==
    IF S = {} THEN <<>>
    ELSE LET m == CHOOSE x \in S : \A y \in S : x <= y IN <<m>> \o Ascending(S \ {m})

\* the elements of a finite set in some order
RECURSIVE SomeOrder(_)
SomeOrder(S) ==
    IF S = {} THEN <<>> ELSE LET m == CHOOSE x \in S : TRUE IN <<m>> \o SomeOrder(S \ {m})

\* the classifier object natural keeps in memory, as a JSON value
FeaturesValue(f, ks) ==
    JObject(ToTuple([i \in 1..Len(ks) |-> Entry(ks[i], JNumber(f[ks[i]]))], Len(ks)))
CountsValue(g, ks) ==
    JObject(ToTuple([i \in 1..Len(ks) |-> Entry(NumberToString(ks[i]), JNumber(g[ks[i]]))], Len(ks)))
ClassFeaturesValue(cf, ls) ==
    JObject(ToTuple([i \in 1..Len(ls) |->
                        Entry(LabelText[ls[i]], CountsValue(cf[ls[i]], Ascending(DOMAIN cf[ls[i]])))],
                    Len(ls)))
ClassTotalsValue(ct) ==
    JObject(ToTuple([i \in 1..Len(ct) |-> Entry(LabelText[ct[i].k], JNumber(ct[i].v))], Len(ct)))
InnerValue(inner) ==
    JObject(<< Entry(PropText.classFeatures,
                     ClassFeaturesValue(inner.classFeatures[1], ObjectKeys(inner.classTotals[1]))),
               Entry(PropText.classTotals, ClassTotalsValue(inner.classTotals[1])),
               Entry(PropText.totalExamples, JNumber(inner.totalExamples[1])),
               Entry(PropText.smoothing, JNumber(inner.smoothing[1])) >>)
NaturalValue(c) ==
    JObject(<< Entry(PropText.classifier, InnerValue(c.classifier[1])),
               Entry(PropText.features, FeaturesValue(c.features[1], SomeOrder(DOMAIN c.features[1]))) >>)

\* the payload without its root object
PayloadBare(rows, naturalJson) == naturalJson

\* const payload = { _eventsCount: rows.length, classifier: naturalJson }
Payload(rows, naturalJson) ==
    JObject(<< Entry(PropText.eventsCount, JNumber(rows)),
               Entry(PropText.classifier, naturalJson) >>)

\* obj[key] on a parsed value: the last member of that name
Prop(v, key) ==
    IF v.t = "object" /\ HasKey(v.es, key)
    THEN Some(v.es[CHOOSE i \in 1..Len(v.es) :
                       v.es[i].k = key /\ \A j \in (i + 1)..Len(v.es) : v.es[j].k # key].v)
    ELSE Undefined

\* a parsed object as the maps the loader reads from it
FeaturesOf(v) == [k \in {v.es[i].k : i \in 1..Len(v.es)} |-> Prop(v, k)[1].n]
CountsOf(v) == [n \in {NumberOf(v.es[i].k) : i \in 1..Len(v.es)} |-> Prop(v, NumberToString(n))[1].n]
ClassFeaturesOf(v) ==
    [l \in {LabelOf(v.es[i].k) : i \in 1..Len(v.es)} |-> CountsOf(Prop(v, LabelText[l])[1])]
ClassTotalsOf(v) ==
    ToTuple([i \in 1..Len(v.es) |-> Entry(LabelOf(v.es[i].k), v.es[i].v.n)], Len(v.es))
Mapped(o, F(_)) == IF IsDefined(o) THEN Some(F(o[1])) ELSE Undefined
NumberProp(o) == o.n

\* the properties of a parsed value that loadModelIfNeeded looks at
RECURSIVE Parsed(_)
Parsed(v) ==
    JObj(Mapped(Prop(v, PropText.features), FeaturesOf),
         Mapped(Prop(v, PropText.classifier), Parsed),
         Mapped(Prop(v, PropText.classFeatures), ClassFeaturesOf),
         Mapped(Prop(v, PropText.classTotals), ClassTotalsOf),
         Mapped(Prop(v, PropText.totalExamples), NumberProp),
         Mapped(Prop(v, PropText.smoothing), NumberProp))

(* ------------------------------------------------------------------ *)
(* train.js: the CSV helpers and main                                  *)
(* ------------------------------------------------------------------ *)
\* String.prototype.toUpperCase
UpperChar(c) ==
    IF \E i \in 1..26 : LowerChars[i] = c
    THEN UpperChars[CHOOSE i \in 1..26 : LowerChars[i] = c]
    ELSE c
toUpperCase(s) == ToTuple([i \in 1..Len(s) |-> UpperChar(s[i])], Len(s))

\* the loop of splitCsvLine from position i on
RECURSIVE SplitCsv(_, _, _, _, _)
SplitCsv(line, i, cur, inQ, out) ==
    IF i > Len(line) THEN Append(out, cur)
    ELSE IF line[i] = "\""
         THEN IF inQ /\ i < Len(line) /\ line[i + 1] = "\""
              THEN SplitCsv(line, i + 2, Append(cur, "\""), inQ, out)
              ELSE SplitCsv(line, i + 1, cur, ~inQ, out)
         ELSE IF line[i] = "," /\ ~inQ
              THEN SplitCsv(line, i + 1, <<>>, inQ, Append(out, cur))
              ELSE SplitCsv(line, i + 1, Append(cur, line[i]), inQ, out)

splitCsvLine(line) == SplitCsv(line, 1, <<>>, FALSE, <<>>)

\* a line without the "\r" of a "\r\n" separator
DropCr(cur) ==
    IF cur # <<>> /\ cur[Len(cur)] = "\r" THEN SubSeq(cur, 1, Len(cur) - 1) ELSE cur

\* text.split(/\r?\n/)
RECURSIVE SplitLines(_, _, _)
SplitLines(s, cur, out) ==
    IF s = <<>> THEN Append(out, cur)
    ELSE IF Head(s) = "\n" THEN SplitLines(Tail(s), <<>>, Append(out, DropCr(cur)))
    ELSE SplitLines(Tail(s), Append(cur, Head(s)), out)

\* .filter((l) => l.trim() !== "")
NonBlank(lines) == SelectSeq(lines, LAMBDA l : trim(l) # <<>>)

\* Array.prototype.indexOf, counted from 1; 0 when absent
IndexOf(seq, x) ==
    IF \E i \in 1..Len(seq) : seq[i] = x
    THEN CHOOSE i \in 1..Len(seq) : seq[i] = x /\ \A j \in 1..(i - 1) : seq[j] # x
    ELSE 0

\* findCol on the trimmed, lower-cased header, from the k-th name on:
\* the column of the first name the header holds; 0 for -1
RECURSIVE FindColFrom(_, _, _)
FindColFrom(lower, names, k) ==
    IF k > Len(names) THEN 0
    ELSE IF IndexOf(lower, names[k]) > 0 THEN IndexOf(lower, names[k])
    ELSE FindColFrom(lower, names, k + 1)

findCol(header, names) ==
    FindColFrom(ToTuple([i \in 1..Len(header) |-> ToChars(toLowerCase(trim(header[i])))],
                        Len(header)),
                names, 1)

TitleNames == << <<"t", "i", "t", "l", "e">>, <<"s", "u", "b", "j", "e", "c", "t">>, <<"n", "a", "m", "e">> >>
DescNames == << <<"d", "e", "s", "c", "r", "i", "p", "t", "i", "o", "n">>, <<"d", "e", "t", "a", "i", "l", "s">>, <<"d", "e", "t", "a", "i", "l">>, <<"n", "o", "t", "e", "s">>, <<"n", "o", "t", "e">>, <<"b", "o", "d", "y">>, <<"t", "e", "x", "t">> >>
PrioNames == << <<"p", "r", "i", "o", "r", "i", "t", "y">>, <<"l", "a", "b", "e", "l">>, <<"c", "l", "a", "s", "s">>, <<"s", "e", "v", "e", "r", "i", "t", "y">> >>

\* const allowed = new Set(["LOW", "MEDIUM", "HIGH", "CRITICAL"])
allowed == { LabelText[l] : l \in DOMAIN LabelText }

\* idx >= 0 ? (cols[idx] ?? "") : ""
Cell(cols, idx) == IF idx > 0 /\ idx <= Len(cols) THEN cols[idx] ELSE <<>>

Row(text, priority) == [text |-> text, priority |-> priority]

\* the loop body without its two `continue` statements
RowOfAny(rows, cols, titleIdx, descIdx, prioIdx) ==
    Append(rows, Row(trim(Cell(cols, titleIdx) \o <<" ">> \o Cell(cols, descIdx)),
                     trim(toUpperCase(Cell(cols, prioIdx)))))

\* the body of the loop of parseCsv on one line: the rows with this line's row
RowOf(rows, cols, titleIdx, descIdx, prioIdx) ==
    IF trim(toUpperCase(Cell(cols, prioIdx))) \notin allowed THEN rows
    ELSE IF trim(Cell(cols, titleIdx) \o <<" ">> \o Cell(cols, descIdx)) = <<>> THEN rows
    ELSE Append(rows, Row(trim(Cell(cols, titleIdx) \o <<" ">> \o Cell(cols, descIdx)),
                          trim(toUpperCase(Cell(cols, prioIdx)))))

RECURSIVE RowsFrom(_, _, _, _)
RowsFrom(lines, i, header, rows) ==
    IF i > Len(lines) THEN rows
    ELSE RowsFrom(lines, i + 1, header,
                  RowOf(rows, splitCsvLine(lines[i]), findCol(header, TitleNames),
                        findCol(header, DescNames), findCol(header, PrioNames)))

\* parseCsv(text).rows
ParseLines(lines) ==
    IF Len(lines) = 0 THEN <<>> ELSE RowsFrom(lines, 2, splitCsvLine(lines[1]), <<>>)
parseCsv(text) == Strict(NonBlank(SplitLines(text, <<>>, <<>>)), ParseLines)

\* training.csv: csvText after the loop over trainingCandidates
\* (Undefined: no candidate could be read)
TrainingCsvs == <<
    Undefined,
    Some(<<>>),
    Some(<<"t", "i", "t", "l", "e", ",", "d", "e", "s", "c", "r", "i", "p", "t", "i", "o", "n", ",", "p", "r", "i", "o", "r", "i", "t", "y", "\n">>),
    Some(<<"t", "i", "t", "l", "e", ",", "d", "e", "s", "c", "r", "i", "p", "t", "i", "o", "n", ",", "p", "r", "i", "o", "r", "i", "t", "y", "\n", "l", "e", "a", "k", ",", ",", "u", "r", "g", "e", "n", "t", "\n", ",", ",", "L", "O", "W", "\n", " ", ",", " ", ",", "H", "I", "G", "H", "\n">>),
    Some(<<"t", "i", "t", "l", "e", ",", "d", "e", "s", "c", "r", "i", "p", "t", "i", "o", "n", ",", "p", "r", "i", "o", "r", "i", "t", "y", "\n", "p", "i", "p", "e", " ", "i", "s", "s", "u", "e", ",", ",", "l", "o", "w", " ", "\n", "\"", "l", "e", "a", "k", ",", " ", "m", "a", "j", "o", "r", "\"", ",", "\"", "s", "a", "y", " ", "\"", "\"", "h", "i", "\"", "\"", "\"", ",", "H", "I", "G", "H", "\n">>),
    Some(<<"t", "i", "t", "l", "e", ",", "n", "o", "t", "e", "s", "\n", "l", "e", "a", "k", ",", "x", "\n">>),
    Some(<<"s", "u", "b", "j", "e", "c", "t", ",", "l", "a", "b", "e", "l", "\n", "!", "!", "!", ",", "L", "O", "W", "\n">>),
    Some(<<"n", "a", "m", "e", ",", "s", "e", "v", "e", "r", "i", "t", "y", "\n", "t", "h", "e", " ", "o", "f", " ", "a", "n", "d", ",", "L", "O", "W", "\n">>),
    Some(<<" ", "P", "r", "i", "o", "r", "i", "t", "y", " ", ",", "T", "i", "t", "l", "e", "\r", "\n", "C", "R", "I", "T", "I", "C", "A", "L", ",", "s", "s", "o", "\r", "\n", "\r", "\n">>) >>

CsvIds == 1..Len(TrainingCsvs)

\* classifier.docs after the loop over rows: a row is added when its
\* normalized text is not empty and holds a token
Docs(rows) == SelectSeq(rows, LAMBDA r : TrainerTokens(r.text) # <<>>)

\* the classifiers natural holds after train(), and the artifact each
\* one is written as
Trained == << Artifacts[4].obj.classifier[1], Artifacts[11].obj.classifier[1],
              Artifacts[12].obj.classifier[1] >>
TrainedAs == <<4, 11, 12>>
TrainedIds == 1..Len(Trained)

\* process.exit(1) in the catch of main(); nothing was written
Failed(err) == [exit |-> 1, err |-> err, wrote |-> FALSE, file |-> NoObj]

\* main() returned: outFile holds the text, given as the value JSON.parse
\* returns for it
Saved(text) == [exit |-> 0, err |-> "", wrote |-> TRUE, file |-> Parsed(JSONparse(text))]

\* main() on csvText, natural holding classifier c after train()
TrainOn(rows, c) ==
    IF Len(rows) = 0 THEN Failed("No valid rows parsed from training.csv")
    ELSE IF Len(Docs(rows)) = 0 THEN Failed("No documents added to classifier")
    ELSE Strict(JSONstringify(Payload(Len(rows), NaturalValue(c))), Saved)
main(csvText, c) ==
    IF ~IsDefined(csvText) \/ csvText[1] = <<>> THEN Failed("training.csv not found")
    ELSE Strict(parseCsv(csvText[1]), LAMBDA rows : TrainOn(rows, c))

(* ------------------------------------------------------------------ *)
(* loadModelIfNeeded, after the read loop                              *)
(* ------------------------------------------------------------------ *)
NoModel == <<>>

\* the object literal assigned to MODEL
ModelOf(features, inner) ==
    [ features |-> features[1],
      classFeatures |-> inner.classFeatures[1],
      classTotals |-> inner.classTotals,
      totalExamples |-> inner.totalExamples,
      smoothing |-> Coalesce(inner.smoothing, 1) ]

\* the shape detection on the parsed value: ok = FALSE is `throw new Error("Not Trained")`
ShapeOf(parsed) ==
    LET c == IF IsDefined(parsed.classifier) THEN parsed.classifier[1] ELSE parsed
    IN  IF /\ IsDefined(c.features)
           /\ IsDefined(c.classifier)
           /\ IsDefined(c.classifier[1].classFeatures)
        THEN [ok |-> TRUE, model |-> Some(ModelOf(c.features, c.classifier[1]))]
        ELSE IF IsDefined(c.features) /\ IsDefined(c.classFeatures)
        THEN [ok |-> TRUE, model |-> Some(ModelOf(c.features, c))]
        ELSE [ok |-> FALSE, model |-> NoModel]

\* the try block of the read loop: TRUE when readFile and JSON.parse both return
ReadParses(a) == a.kind \in {"null", "object"}

\* !parsed
ParsedFalsy(a) == a.kind # "object"

(* ------------------------------------------------------------------ *)
(* smartClassify and classifyHandler                                   *)
(* ------------------------------------------------------------------ *)
\* return { priority: "MEDIUM", confidence: 0 }
DefaultResult(li) ==
    [err |-> "", priority |-> "MEDIUM", confidence |-> RZero,
     inferredType |-> Undefined, scored |-> FALSE, probs |-> NoProbs, li |-> li]

\* return { priority: label, confidence, inferredType }, or classifyTokens' exception
ResultOf(r) ==
    [err |-> r.err, priority |-> r.label, confidence |-> r.confidence,
     inferredType |-> IF Len(r.tags) > 0 THEN Some(r.tags[1]) ELSE Undefined,
     scored |-> r.err = "", probs |-> r.probs, li |-> r.li]

\* smartClassify from `if (!toks.length)` on
ClassifyText(model, toks, rawText, li) ==
    IF Len(toks) = 0 THEN DefaultResult(li)
    ELSE ResultOf(classifyTokens(model, toks, rawText, li))

\* smartClassify({title, description}) after `await loadModelIfNeeded()`
\* has returned, with MODEL = model and the RegExp objects in state li
smartClassifyText(model, title, description, li) ==
    ClassifyText(model, TokensOf(title, description), RawTextOf(title, description), li)

\* classifyHandler's call of smartClassify on req.body
smartClassify(model, body, li) ==
    smartClassifyText(model, StringOr(body.title), StringOr(body.description), li)

\* the rejection of smartClassify when loadModelIfNeeded throws
LoadFailed(li) ==
    [err |-> "Not Trained", priority |-> "", confidence |-> RZero,
     inferredType |-> Undefined, scored |-> FALSE, probs |-> NoProbs, li |-> li]

Response(status, ok, reason, priority, confidence, inferredType) ==
    [ status |-> status,
      body |-> [ok |-> ok, reason |-> reason, priority |-> priority,
                confidence |-> confidence, inferredType |-> inferredType] ]

NotTrainedResponse == Response(200, FALSE, "not_trained", "", RZero, Undefined)
InternalErrorResponse == Response(500, FALSE, "internal_error", "", RZero, Undefined)

\* `if (text.length < 6)` of the older variant of the handler
MinTextV2 == 6

\* classifyHandler without the "Not Trained" branch of its catch block
classifyHandlerNoSentinel(res) ==
    IF res.err = ""
    THEN [sent |-> <<Response(200, TRUE, "", res.priority, res.confidence,
                              res.inferredType)>>,
          thrown |-> FALSE]
    ELSE [sent |-> <<InternalErrorResponse>>, thrown |-> FALSE]

\* classifyHandler around the settled smartClassify promise: the responses
\* it sends, and whether an exception leaves the handler
classifyHandler(res) ==
    IF res.err = ""
    THEN [sent |-> <<Response(200, TRUE, "", res.priority, res.confidence,
                              res.inferredType)>>,
          thrown |-> FALSE]
    ELSE IF res.err = "Not Trained"
    THEN [sent |-> <<NotTrainedResponse>>, thrown |-> FALSE]
    ELSE [sent |-> <<InternalErrorResponse>>, thrown |-> FALSE]

\* the older variant of the handler kept in the same file, on a request
\* whose trimmed text is text while its MODEL_PATH holds artifact a: it
\* answers every failure with status 200. Its scorer finds no labels in
\* the artifacts of this catalogue and returns MEDIUM with confidence 0.
classifyHandlerV2(text, a) ==
    IF Len(text) < MinTextV2
    THEN [sent |-> <<Response(200, FALSE, "text_too_short", "", RZero, Undefined)>>,
          thrown |-> FALSE]
    ELSE IF ~ReadParses(a)
    THEN [sent |-> <<Response(200, FALSE, "not_trained", "", RZero, Undefined)>>,
          thrown |-> FALSE]
    ELSE IF ParsedFalsy(a)
    THEN [sent |-> <<Response(200, FALSE, "internal_error", "", RZero, Undefined)>>,
          thrown |-> FALSE]
    ELSE [sent |-> <<Response(200, TRUE, "", "MEDIUM", RZero, Undefined)>>,
          thrown |-> FALSE]

(* ------------------------------------------------------------------ *)
(* The service process                                                 *)
(* ------------------------------------------------------------------ *)
\* classify requests served during the run
MaxReq == 2
\* runs of the trainer during the run
MaxTrain == 1
\* feedback requests served during the run
MaxFeedback == 1

ReqIds == 1..MaxReq

(* ------------------------------------------------------------------ *)
(* POST /ml/feedback                                                   *)
(* ------------------------------------------------------------------ *)
\* feedback requests whose handler is followed await by await
MaxFb == 2

FbIds == 1..MaxFb

\* req.body of a feedback request, as express.json() leaves it: the two
\* bodies the incident form sends and a request without a JSON body
FeedbackBodies == <<
    Some([action |-> Some("accept"), suggested |-> Some([priority |-> "HIGH"]),
          final |-> Some([priority |-> "HIGH"])]),
    Some([action |-> Some("override"), suggested |-> Some([priority |-> "HIGH"]),
          final |-> Some([priority |-> "LOW"])]),
    Undefined >>

FeedbackBodyIds == 1..Len(FeedbackBodies)

\* new Date().toISOString(): the reading of the clock
Now == "2025-01-01T00:00:00.000Z"

\* req.body || {}
BodyOrEmpty(b) ==
    IF IsDefined(b) THEN b[1] ELSE [action |-> Undefined, suggested |-> Undefined, final |-> Undefined]

\* the members JSON.stringify keeps of an object literal: those whose
\* value is not undefined, in the order of the literal
Defined(members) == SelectSeq(members, LAMBDA m : IsDefined(m.v))

\* the members with their values unwrapped
Unwrapped(members) ==
    [i \in 1..Len(members) |-> Entry(members[i].k, members[i].v[1])]

\* the line feedbackHandler builds from req.body: the text of
\* { ts, action, suggested, final } and its newline, kept as the members
\* the text holds
FeedbackLine(b) ==
    <<Entry("ts", Now)>>
        \o Unwrapped(Defined(<<Entry("action", BodyOrEmpty(b).action),
                               Entry("suggested", BodyOrEmpty(b).suggested),
                               Entry("final", BodyOrEmpty(b).final)>>))

\* writeFile(path, line, { flag: "w" }): the file holds the line alone
Overwritten(file, line) == <<line>>

\* writeFile(path, line, { flag: "a" }): the file with the line at its end
Appended(file, line) == Append(file, line)

\* pc: idle (not yet arrived), mkdir (awaiting mkdir), write (awaiting
\* writeFile of line), done (answered with status), lost (the fetch of
\* the request rejected).  History of a done request: pos, the place
\* of its line in the log as writeFile left it (0: nothing written), and
\* thrown, whether the handler's promise rejected
IdleFb == [pc |-> "idle", body |-> Undefined, line |-> <<>>, status |-> 0, ok |-> FALSE,
           pos |-> 0, thrown |-> FALSE]

(* ------------------------------------------------------------------ *)
(* PATCH /incidents/:id (api/src/routes/incidents.js)                  *)
(* ------------------------------------------------------------------ *)

\* how many PATCH requests are in flight together
MaxPatch == 2

PatchIds == 1..MaxPatch

\* req.params.id as sent: 1 is the incident of the table, 2 an id no
\* incident has, 0 an id that is not a positive number
IdParams == {0, 1, 2}

\* body.status as sent: absent, the empty string, a status of the table
StatusInputs == {"undefined", "", "IN_PROGRESS", "RESOLVED"}

\* body.assetId as sent: absent, null (or "null"), the asset of the
\* table, an asset that does not exist, a number that is not positive
AssetInputs == {"undefined", "null", "1", "2", "0"}

\* the assets the table holds
Assets == {1}

\* a cleared assignment
null == <<>>

\* Number(v) of the inputs above
Number(v) == CASE v = "1" -> 1 [] v = "2" -> 2 [] v = "0" -> 0

\* typeof status === "string" && status.length
Updatable(status) == status \notin {"undefined", ""}

\* the data the handler has built before it looks up the asset: the
\* status if it is a non-empty string, assetId null if that was sent
Data(status, assetId) ==
    [status  |-> IF Updatable(status) THEN Some(status) ELSE Undefined,
     assetId |-> IF assetId = "null" THEN Some(null) ELSE Undefined]

\* Object.keys(data).length === 0
NoKeys(data) == ~IsDefined(data.status) /\ ~IsDefined(data.assetId)

\* an update that writes the whole row, an absent assetId as null
Replaced(row, data) ==
    [status  |-> IF IsDefined(data.status) THEN data.status[1] ELSE row.status,
     assetId |-> IF IsDefined(data.assetId) THEN data.assetId[1] ELSE null]

\* prisma.incident.update({ where, data }): the columns that data names
\* are set, the others keep their values
Applied(row, data) ==
    [status  |-> IF IsDefined(data.status) THEN data.status[1] ELSE row.status,
     assetId |-> IF IsDefined(data.assetId) THEN data.assetId[1] ELSE row.assetId]

\* pc: idle (not yet arrived), findAsset (awaiting asset.findUnique),
\* update (awaiting incident.update), done (answered with status and
\* reason; incident is the row sent with a 200)
IdlePatch == [pc |-> "idle", id |-> 0, status |-> "undefined", assetId |-> "undefined",
              data |-> Data("undefined", "undefined"), code |-> 0, reason |-> "",
              incident |-> Undefined]

\* the incidents table before anything happened: incident 1 is open and
\* has no asset, no PATCH request has arrived
NoInc == [rows |-> [i \in {1} |-> [status |-> "OPEN", assetId |-> null]],
          reqs |-> [r \in PatchIds |-> IdlePatch]]

(* ------------------------------------------------------------------ *)
(* The ServiceNow hooks (api/src/integrations/snow/hooks.js)           *)
(* ------------------------------------------------------------------ *)
\* PATCH requests on the incident, each firing onIncidentUpdated
MaxUpdates == 2

\* hook 1 is the onIncidentCreated of the incident, the others are its
\* calls of onIncidentUpdated
HookIds == 1..(1 + MaxUpdates)

\* withRetry(fn, tries = 3)
tries == 3

\* the delay of the first backoff, in ms
BackoffMs == 500

\* 2^n
RECURSIVE Pow2(_)
Pow2(n) == IF n = 0 THEN 1 ELSE 2 * Pow2(n - 1)

\* a backoff that grows by BackoffMs per failure
DelayLinear(i) == BackoffMs * (i + 1)

\* 500 * Math.pow(2, i)
Delay(i) == BackoffMs * Pow2(i)

\* a call of a hook.  pc: idle (not yet called), get (awaiting getSysId),
\* try (withRetry awaits fn()), backoff (withRetry awaits its timeout),
\* upsert (awaiting upsertSysId), done (returned), rejected (threw err).
\* op: the fn of withRetry, create (snCreate) or update (snUpdate); i:
\* the loop variable of withRetry; lastErr: the number of the attempt
\* that threw it (0: none); sysId: what getSysId returned; result: the
\* sys_id in what fn returned.  History: stored (the mapping when the
\* hook was called), attempts (calls of fn), ok (the attempts that
\* succeeded), waits (the delays waited, in order), made (tickets it
\* created), patched (the ticket it patched)
IdleHook ==
    [ pc |-> "idle", op |-> "", i |-> 0, lastErr |-> 0, err |-> 0, sysId |-> 0, result |-> 0,
      stored |-> 0, attempts |-> 0, ok |-> {}, waits |-> <<>>, made |-> 0, patched |-> 0 ]

\* the integration before the incident exists: configured (the SN_*
\* variables are set), link (the sys_id in the incident's row of
\* snow_link, 0: no row), tickets (the tickets of the instance, whose
\* sys_ids are 1..tickets)
NoSn == [configured |-> TRUE, link |-> 0, tickets |-> 0, hooks |-> [h \in HookIds |-> IdleHook]]

(* ------------------------------------------------------------------ *)
(* The incident form (web/src/components/incidentform.tsx)             *)
(* ------------------------------------------------------------------ *)
\* timers the AI suggestion effect starts during the run
MaxClassify == 2
\* clicks on Create Incident during the run
MaxCreate == 2
PRIORITIES == <<"LOW", "MEDIUM", "HIGH", "CRITICAL">>

\* the priorities the user picks in the select
PickedPriorities == {"LOW", "HIGH"}

\* a field of the form is empty (0) or holds a text (1); the text of the
\* form is <<title, description>>
FieldValues == {0, 1}

\* the texts on which the effect asks for a classification
FormTexts == {<<1, 0>>, <<0, 1>>, <<1, 1>>}

\* the priority POST /ml/classify answers for a text
PriorityOf(text) ==
    IF text = <<1, 0>> THEN "HIGH" ELSE "LOW"

\* the component as mounted.  timer: the pending timeout of the effect and
\* the text of its closure; fetches: the classify requests in flight, each
\* with the text it carries; aiSuggestion: null or the suggestion, with the
\* text it was computed for (history); mounting: the fetchList of the
\* mount is in flight; creates: the calls of onCreate, in order (history);
\* sent: the feedback requests sent since the form was last reset, in
\* order (history)
NoForm ==
    [ title |-> 0, description |-> 0, priority |-> "MEDIUM",
      aiLoading |-> FALSE, aiErr |-> FALSE, aiSuggestion |-> <<>>,
      timer |-> <<>>, fetches |-> {}, started |-> 0,
      loading |-> TRUE, mounting |-> TRUE,
      creates |-> <<>>, sent |-> <<>> ]

\* the AI suggestion effect, run after a render in which title or
\* description changed: the cleanup of the previous run, then its body
Effect(f) ==
    IF f.title = 0 /\ f.description = 0
    THEN [f EXCEPT !.timer = <<>>, !.aiSuggestion = <<>>, !.aiErr = FALSE]
    ELSE [f EXCEPT !.aiErr = FALSE, !.aiLoading = TRUE, !.started = f.started + 1,
                   !.timer = <<[n |-> f.started + 1, text |-> <<f.title, f.description>>]>>]

\* the render after title and description were set: the effect runs when
\* one of them differs from the render before (old)
Rendered(f, old) ==
    IF f.title = old.title /\ f.description = old.description THEN f ELSE Effect(f)

\* onReset, and the render that follows
onReset(f) ==
    Rendered([f EXCEPT !.title = 0, !.description = 0, !.priority = "MEDIUM",
                       !.aiSuggestion = <<>>, !.aiErr = FALSE, !.sent = <<>>], f)

VARIABLES
    disk,          \* disk[p]: the artifact at MODEL_PATHS[p]
    MODEL,         \* NoModel (null) or <<model>>
    LOADED_FROM,   \* 0 (null) or the path loaded from
    lastIndex,     \* lastIndex of the RegExp object of every rule
    req,           \* the classify requests, in order of arrival
    trained,       \* runs of the trainer so far
    feedbackLog,   \* the lines of ml_feedback.log
    modelArt,      \* history: the artifact MODEL was extracted from (0: none)
    call,          \* the last direct call of a function: its name, argument and outcome
    fbReq,         \* the feedback requests followed await by await
    form,          \* the incident form in the browser
    sn,            \* the ServiceNow hooks, the mapping table and the instance
    inc            \* the incidents table and the PATCH requests

\* the components beside the classifier
web == <<fbReq, form, sn, inc>>

vars == <<disk, MODEL, LOADED_FROM, lastIndex, req, trained, feedbackLog, modelArt, call,
          fbReq, form, sn, inc>>

\* pc: idle (not yet arrived), reading (in readFile of path p), readDone
\* (the read has completed with artifact buf), done (response sent).
\* History of a done request: err, the model in MODEL as the handler
\* returned (mdl) and the artifact it came from (mdlArt), whether this
\* request assigned MODEL (installed), whether it computed scores (scored)
\* and the probabilities it computed (probs),
\* and must: at arrival every earlier request had failed with "Not Trained"
\* and the artifact the loader reads was a valid one
IdleReq ==
    [ pc |-> "idle", body |-> 0, p |-> 0, buf |-> 0, sent |-> <<>>,
      thrown |-> FALSE, err |-> "", mdl |-> NoModel, mdlArt |-> 0,
      installed |-> FALSE, scored |-> FALSE, probs |-> NoProbs, must |-> FALSE ]

\* no function has been called directly
NoCall == [fn |-> "", arg |-> <<>>, out |-> <<>>]

\* the module has just been loaded: nothing cached, nothing received
Fresh ==
    /\ MODEL = NoModel
    /\ LOADED_FROM = 0
    /\ lastIndex = [critical |-> ToTuple([j \in 1..Len(CRITICAL_RULES) |-> 0],
                                         Len(CRITICAL_RULES)),
                    high |-> ToTuple([j \in 1..Len(HIGH_RULES) |-> 0],
                                     Len(HIGH_RULES))]
    /\ req = [r \in ReqIds |-> IdleReq]
    /\ trained = 0
    /\ feedbackLog = <<>>
    /\ modelArt = 0
    /\ call = NoCall
    /\ fbReq = [r \in FbIds |-> IdleFb]

\* the other components have not been used
Elsewhere == form = NoForm /\ sn = NoSn /\ inc = NoInc

Init ==
    /\ disk \in [1..Len(MODEL_PATHS) -> ArtifactIds]
    /\ disk[Len(MODEL_PATHS)] \in FallbackArtifacts
    /\ Fresh
    /\ Elsewhere

\* the artifact at which the read loop of loadModelIfNeeded stops on disk d,
\* from path p on: the first that reads and parses, else the last path's
RECURSIVE LoadSource(_, _)
LoadSource(d, p) ==
    IF p = Len(MODEL_PATHS) \/ ReadParses(Artifacts[d[MODEL_PATHS[p]]])
    THEN d[MODEL_PATHS[p]]
    ELSE LoadSource(d, p + 1)

\* a model that classifyTokens can score with
UsableModel(m) ==
    /\ m # NoModel
    /\ IsDefined(m[1].classTotals)
    /\ Len(m[1].classTotals[1]) > 0

\* an artifact from which a usable model loads
ValidArtifact(a) == a.kind = "object" /\ UsableModel(ShapeOf(a.obj).model)

\* history, taken as request r arrives
Must(r) ==
    /\ \A q \in 1..(r - 1) : req[q].pc = "done" /\ req[q].err = "Not Trained"
    /\ ValidArtifact(Artifacts[LoadSource(disk, 1)])

\* the request record once the handler has sent its response
Answered(rq, res, h, installed, mdl, art) ==
    [rq EXCEPT !.pc = "done", !.sent = h.sent, !.thrown = h.thrown,
               !.err = res.err, !.mdl = mdl, !.mdlArt = art,
               !.installed = installed, !.scored = res.scored, !.probs = res.probs]

\* the handler settles with res, the outcome of smartClassify
Settle(r, rq, res, installed, mdl, art) ==
    /\ req' = [req EXCEPT ![r] = Answered(rq, res, classifyHandler(res), installed, mdl, art)]
    /\ lastIndex' = res.li

\* the request as it arrives
Arrived(r, b) == [IdleReq EXCEPT !.body = b, !.must = Must(r)]

\* POST /ml/classify arrives: classifyHandler -> smartClassify ->
\* loadModelIfNeeded; with MODEL set the request runs to its response,
\* otherwise it suspends in readFile of the first path
Receive(r, b) ==
    /\ UNCHANGED <<call, web>>
    /\ req[r].pc = "idle"
    /\ \A q \in 1..(r - 1) : req[q].pc # "idle"
    /\ IF MODEL # NoModel
       THEN /\ \E res \in {smartClassify(MODEL[1], Bodies[b], lastIndex)} :
                   Settle(r, Arrived(r, b), res, FALSE, MODEL, modelArt)
            /\ UNCHANGED <<disk, MODEL, LOADED_FROM, trained, feedbackLog, modelArt>>
       ELSE /\ req' = [req EXCEPT ![r] = [Arrived(r, b) EXCEPT !.pc = "reading", !.p = 1]]
            /\ UNCHANGED <<disk, MODEL, LOADED_FROM, lastIndex, trained,
                           feedbackLog, modelArt>>

\* readFile(p) completes in the thread pool with the file's content
ReadFile(r) ==
    /\ UNCHANGED <<call, web>>
    /\ req[r].pc = "reading"
    /\ req' = [req EXCEPT ![r].pc = "readDone", ![r].buf = disk[MODEL_PATHS[req[r].p]]]
    /\ UNCHANGED <<disk, MODEL, LOADED_FROM, lastIndex, trained, feedbackLog, modelArt>>

\* the assignment of MODEL had it written the properties one by one into
\* the object already there
InstallInPlace(r, m) ==
    LET merged == IF MODEL = NoModel THEN m
                  ELSE <<[MODEL[1] EXCEPT !.features = m[1].features,
                                          !.classFeatures = m[1].classFeatures]>>
    IN  /\ MODEL' = merged
        /\ LOADED_FROM' = MODEL_PATHS[req[r].p]
        /\ modelArt' = req[r].buf
        /\ Settle(r, req[r], smartClassify(merged[1], Bodies[req[r].body], lastIndex),
                  TRUE, merged, req[r].buf)
        /\ UNCHANGED <<disk, trained, feedbackLog>>

\* MODEL = {...}; LOADED_FROM = loadedPath; then smartClassify and the
\* handler run on to the response
Install(r, m) ==
    /\ MODEL' = m
    /\ LOADED_FROM' = MODEL_PATHS[req[r].p]
    /\ modelArt' = req[r].buf
    /\ \E res \in {smartClassify(m[1], Bodies[req[r].body], lastIndex)} :
           Settle(r, req[r], res, TRUE, m, req[r].buf)
    /\ UNCHANGED <<disk, trained, feedbackLog>>

\* the continuation after `await readFile(p)` has given artifact a: the
\* rest of the loop, the shape detection, the assignment of MODEL, scoring
\* and the response
Continue(r, a) ==
    IF ~ReadParses(a) /\ req[r].p < Len(MODEL_PATHS)
    THEN \* catch: try the next path
         /\ req' = [req EXCEPT ![r].pc = "reading", ![r].p = req[r].p + 1, ![r].buf = 0]
         /\ UNCHANGED <<disk, MODEL, LOADED_FROM, lastIndex, trained, feedbackLog,
                        modelArt>>
    ELSE IF ParsedFalsy(a) \/ ~ShapeOf(a.obj).ok
    THEN \* throw new Error("Not Trained")
         /\ Settle(r, req[r], LoadFailed(lastIndex), FALSE, MODEL, modelArt)
         /\ UNCHANGED <<disk, MODEL, LOADED_FROM, trained, feedbackLog, modelArt>>
    ELSE Install(r, ShapeOf(a.obj).model)

AfterRead(r) ==
    /\ UNCHANGED <<call, web>>
    /\ req[r].pc = "readDone"
    /\ Continue(r, Artifacts[req[r].buf])

\* a run of the trainer writes its artifact to MODEL_PATHS[0]
Train(a) ==
    /\ UNCHANGED <<call, web>>
    /\ trained < MaxTrain
    /\ disk[MODEL_PATHS[1]] # a
    /\ disk' = [disk EXCEPT ![MODEL_PATHS[1]] = a]
    /\ trained' = trained + 1
    /\ UNCHANGED <<MODEL, LOADED_FROM, lastIndex, req, feedbackLog, modelArt>>

\* POST /ml/feedback with body FeedbackBodies[b], served without an error:
\* feedbackHandler appends one line to ml_feedback.log
Feedback(b) ==
    /\ UNCHANGED <<call, web>>
    /\ Len(feedbackLog) < MaxFeedback
    /\ feedbackLog' = Appended(feedbackLog, FeedbackLine(FeedbackBodies[b]))
    /\ UNCHANGED <<disk, MODEL, LOADED_FROM, lastIndex, req, trained, modelArt>>

Next ==
    \/ \E r \in ReqIds, b \in BodyIds : Receive(r, b)
    \/ \E r \in ReqIds : ReadFile(r)
    \/ \E r \in ReqIds : AfterRead(r)
    \/ \E a \in TrainerArtifacts : Train(a)
    \/ \E b \in FeedbackBodyIds : Feedback(b)

Spec == Init /\ [][Next]_vars

(* ------------------------------------------------------------------ *)
(* Direct calls: the functions of the service and of the trainer      *)
(* called one at a time, each call running to its end                  *)
(* ------------------------------------------------------------------ *)
Called(fn, arg, out) == [fn |-> fn, arg |-> arg, out |-> out]

\* the first path of MODEL_PATHS, from p on, whose file reads and parses,
\* else the last path
RECURSIVE LoadedPath(_, _)
LoadedPath(d, p) ==
    IF p = Len(MODEL_PATHS) \/ ReadParses(Artifacts[d[MODEL_PATHS[p]]])
    THEN MODEL_PATHS[p]
    ELSE LoadedPath(d, p + 1)

\* smartClassify's result is recorded, the RegExp objects keep their state
Record(t, res) ==
    /\ call' = Called("smartClassify", t, res)
    /\ lastIndex' = res.li

\* loadModelIfNeeded run to its end on artifact a = Artifacts[src] read
\* from path p, then the rest of smartClassify on Texts[t]
LoadAndClassify(t, src, a, p) ==
    IF ParsedFalsy(a) \/ ~ShapeOf(a.obj).ok
    THEN /\ Record(t, LoadFailed(lastIndex))
         /\ UNCHANGED <<MODEL, LOADED_FROM, modelArt>>
    ELSE /\ MODEL' = ShapeOf(a.obj).model
         /\ LOADED_FROM' = p
         /\ modelArt' = src
         /\ \E res \in {smartClassifyText(ShapeOf(a.obj).model[1], Texts[t], <<>>, lastIndex)} :
                Record(t, res)

\* await smartClassify({ title: Texts[t] })
CallSmartClassify(t) ==
    /\ IF MODEL # NoModel
       THEN /\ \E res \in {smartClassifyText(MODEL[1], Texts[t], <<>>, lastIndex)} : Record(t, res)
            /\ UNCHANGED <<MODEL, LOADED_FROM, modelArt>>
       ELSE LoadAndClassify(t, LoadSource(disk, 1), Artifacts[LoadSource(disk, 1)],
                            LoadedPath(disk, 1))
    /\ UNCHANGED <<disk, req, trained, feedbackLog>>
    /\ UNCHANGED web

\* logScores objects handed to applyDomainBoost: all four classes, neither
\* boosted class, CRITICAL only, HIGH and LOW only
ScoreObjects == <<
    <<Entry("LOW", LogRatio(1, 2)), Entry("MEDIUM", LogRatio(1, 3)),
      Entry("HIGH", LogRatio(1, 5)), Entry("CRITICAL", LogRatio(1, 7))>>,
    <<Entry("LOW", LogRatio(2, 3)), Entry("MEDIUM", LogRatio(1, 3))>>,
    <<Entry("CRITICAL", LogScore(<<1, 4>>, -1))>>,
    <<Entry("HIGH", LogRatio(3, 4)), Entry("LOW", LogRatio(1, 4))>> >>

ScoreIds == 1..Len(ScoreObjects)

\* applyDomainBoost(Texts[t], logScores) on a copy of ScoreObjects[s]: out
\* holds logScores as the call leaves it and the tags returned
CallApplyDomainBoost(t, s) ==
    /\ \E res \in {applyDomainBoost(Texts[t], ScoreObjects[s], lastIndex)} :
           /\ call' = Called("applyDomainBoost", <<t, s>>, res)
           /\ lastIndex' = res.li
    /\ UNCHANGED <<disk, MODEL, LOADED_FROM, req, trained, feedbackLog, modelArt>>
    /\ UNCHANGED web

\* a call that touches no variable of the service
Pure(fn, arg, out) ==
    /\ call' = Called(fn, arg, out)
    /\ UNCHANGED <<disk, MODEL, LOADED_FROM, lastIndex, req, trained, feedbackLog, modelArt>>
    /\ UNCHANGED web

\* lightStem(Words[w])
CallLightStem(w) == Pure("lightStem", w, lightStem(Words[w]))

\* tokenize(TokenizeArgs[a])
CallTokenize(a) == Pure("tokenize", a, tokenizeOrEmpty(TokenizeArgs[a]))

\* the trainer's loop body on a row whose text is TokenizeArgs[a]
CallAddDocument(a) == Pure("addDocument", a, TrainerTokens(TokenizeArgs[a][1]))

\* token lists classifyTokens is called on directly: tokens of the
\* vocabularies ("pipe", "leak", "water"), other tokens, and the token
\* that names a property every object inherits
TokenLists == <<
    << <<"z", "z", "z">> >>,
    << <<"c", "o", "n", "s", "t", "r", "u", "c", "t", "o", "r">> >>,
    << <<"p", "i", "p", "e">>, <<"z", "z", "z">>, <<"l", "e", "a", "k">> >>,
    << <<"p", "i", "p", "e">>, <<"l", "e", "a", "k">> >>,
    << <<"p", "i", "p", "e">>, <<"c", "o", "n", "s", "t", "r", "u", "c", "t", "o", "r">>, <<"l", "e", "a", "k">> >>,
    << <<"v", "a", "l", "v", "e">>, <<"z", "z", "z">> >>,
    << <<"w", "a", "t", "e", "r">>, <<"w", "a", "t", "e", "r">>, <<"v", "a", "l", "v", "e">> >> >>

TokenListIds == 1..Len(TokenLists)

\* classifyTokens' value or exception, with logScores as the loop over
\* labels leaves it (history)
Scored(model, tokens, res) ==
    [res |-> res, logScores |-> IF res.err = "" THEN RawLogScores(model, tokens) ELSE <<>>]

\* classifyTokens(TokenLists[k], "") on the loaded MODEL
CallClassifyTokens(k) ==
    /\ MODEL # NoModel
    /\ \E res \in {classifyTokens(MODEL[1], TokenLists[k], <<>>, lastIndex)} :
           /\ call' = Called("classifyTokens", k, Scored(MODEL[1], TokenLists[k], res))
           /\ lastIndex' = res.li
    /\ UNCHANGED <<disk, MODEL, LOADED_FROM, req, trained, feedbackLog, modelArt>>
    /\ UNCHANGED web

\* node train.js: main() on TrainingCsvs[c], natural holding Trained[p]
\* after train(); writeFile replaces the file at MODEL_PATHS[0]
RunTrainer(c, p) ==
    /\ trained < MaxTrain
    /\ \E res \in {main(TrainingCsvs[c], Trained[p])} :
           /\ call' = Called("main", <<c, p>>, res)
           /\ disk' = IF res.wrote THEN [disk EXCEPT ![MODEL_PATHS[1]] = TrainedAs[p]]
                      ELSE disk
    /\ trained' = trained + 1
    /\ UNCHANGED <<MODEL, LOADED_FROM, lastIndex, req, feedbackLog, modelArt>>
    /\ UNCHANGED web

CallNext ==
    \/ \E c \in CsvIds, p \in TrainedIds : RunTrainer(c, p)
    \/ \E t \in TextIds : CallSmartClassify(t)
    \/ \E k \in TokenListIds : CallClassifyTokens(k)
    \/ \E w \in WordIds : CallLightStem(w)
    \/ \E a \in TokenizeArgIds : CallTokenize(a)
    \/ \E a \in TokenizeArgIds \ {1} : CallAddDocument(a)
    \/ \E t \in TextIds, s \in ScoreIds : CallApplyDomainBoost(t, s)

CallInit ==
    /\ disk \in [1..Len(MODEL_PATHS) -> CallArtifactIds]
    /\ disk[Len(MODEL_PATHS)] \in FallbackArtifacts
    /\ Fresh
    /\ Elsewhere

CallSpec == CallInit /\ [][CallNext]_vars

(* ------------------------------------------------------------------ *)
(* The feedback sink: feedbackHandler followed await by await, beside  *)
(* calls of the classifier                                             *)
(* ------------------------------------------------------------------ *)
\* the texts classified beside the feedback requests
FbTextIds == {1, 7}

\* a handler without the catch block: its promise rejects, nothing is sent
Rethrown(q) == [q EXCEPT !.pc = "done", !.thrown = TRUE]

\* the catch block of feedbackHandler: the error is logged and answered
Caught(q) == [q EXCEPT !.pc = "done", !.status = 500, !.ok = FALSE]

\* res.json({ ok: true }) after the line went to place pos of the log
Written(q, pos) == [q EXCEPT !.pc = "done", !.status = 200, !.ok = TRUE, !.pos = pos]

\* a feedback request with body FeedbackBodies[b] arrives: feedbackHandler
\* runs up to its await of mkdir
FbReceive(r, b) ==
    /\ fbReq[r].pc = "idle"
    /\ fbReq' = [fbReq EXCEPT ![r] = [fbReq[r] EXCEPT !.pc = "mkdir", !.body = FeedbackBodies[b]]]
    /\ UNCHANGED <<disk, MODEL, LOADED_FROM, lastIndex, req, trained, feedbackLog, modelArt,
                   call, form, sn, inc>>

\* mkdir settles: fulfilled, the handler builds the line and awaits
\* writeFile; rejected, it answers from the catch block
FbMkdir(r, fulfilled) ==
    /\ fbReq[r].pc = "mkdir"
    /\ fbReq' = [fbReq EXCEPT ![r] =
                    IF fulfilled
                    THEN [fbReq[r] EXCEPT !.pc = "write", !.line = FeedbackLine(fbReq[r].body)]
                    ELSE Caught(fbReq[r])]
    /\ UNCHANGED <<disk, MODEL, LOADED_FROM, lastIndex, req, trained, feedbackLog, modelArt,
                   call, form, sn, inc>>

\* writeFile settles: fulfilled, the line is in the file and the handler
\* answers 200; rejected, nothing was written and it answers from the
\* catch block
FbWrite(r, fulfilled) ==
    /\ fbReq[r].pc = "write"
    /\ IF fulfilled
       THEN \E file \in {Appended(feedbackLog, fbReq[r].line)} :
                /\ feedbackLog' = file
                /\ fbReq' = [fbReq EXCEPT ![r] = Written(fbReq[r], Len(file))]
       ELSE /\ fbReq' = [fbReq EXCEPT ![r] = Caught(fbReq[r])]
            /\ UNCHANGED feedbackLog
    /\ UNCHANGED <<disk, MODEL, LOADED_FROM, lastIndex, req, trained, modelArt,
                   call, form, sn, inc>>

FbNext ==
    \/ \E r \in FbIds, b \in FeedbackBodyIds : FbReceive(r, b)
    \/ \E r \in FbIds, fulfilled \in BOOLEAN : FbMkdir(r, fulfilled)
    \/ \E r \in FbIds, fulfilled \in BOOLEAN : FbWrite(r, fulfilled)
    \/ \E t \in FbTextIds : CallSmartClassify(t)

\* the service starts with no model or the first model at MODEL_PATHS[0]
FbInit ==
    /\ disk \in [1..Len(MODEL_PATHS) -> {1, 4}]
    /\ disk[Len(MODEL_PATHS)] \in FallbackArtifacts
    /\ Fresh
    /\ Elsewhere

FeedbackSpec == FbInit /\ [][FbNext]_vars

(* ------------------------------------------------------------------ *)
(* The incident form in the browser, with the service's feedback       *)
(* handler behind it                                                   *)
(* ------------------------------------------------------------------ *)
\* the feedback requests not yet used
FreeFb == {r \in FbIds : fbReq[r].pc = "idle"}

\* req.body of the request sendMlFeedback(action, suggested, final) posts
FeedbackBody(action, suggested, final) ==
    Some([action |-> Some(action), suggested |-> Some([priority |-> suggested]),
          final |-> Some([priority |-> final])])

\* sendMlFeedback(action, suggested, final) up to its await of fetch: the
\* request r is on its way, or with the handler at its await of mkdir
Posted(r, action, suggested, final) ==
    [fbReq EXCEPT ![r] = [fbReq[r] EXCEPT !.pc = "mkdir",
                                          !.body = FeedbackBody(action, suggested, final)]]

\* the form f once request r was posted
Sent(f, r) == [f EXCEPT !.sent = Append(f.sent, r)]

\* await sendMlFeedback(...): what follows waits until the fetch of
\* request r has settled
Awaited(r) == IF r = 0 THEN TRUE ELSE fbReq[r].pc \in {"done", "lost"}

\* sendMlFeedback is called without await: what follows the call does not
\* wait for request r
NotAwaited(r) == TRUE

\* what a step of the browser or of the feedback handler leaves alone
FormFrame ==
    UNCHANGED <<disk, MODEL, LOADED_FROM, lastIndex, req, trained, modelArt, call, sn, inc>>

\* the user types into, or clears, the title
EditTitle(v) ==
    /\ v # form.title
    /\ v = 0 \/ form.started < MaxClassify
    /\ form' = Rendered([form EXCEPT !.title = v], form)
    /\ UNCHANGED <<feedbackLog, fbReq>> /\ FormFrame

\* the user types into, or clears, the description
EditDescription(v) ==
    /\ v # form.description
    /\ v = 0 \/ form.started < MaxClassify
    /\ form' = Rendered([form EXCEPT !.description = v], form)
    /\ UNCHANGED <<feedbackLog, fbReq>> /\ FormFrame

\* the user picks a priority in the select
SelectPriority(p) ==
    /\ p # form.priority
    /\ form' = [form EXCEPT !.priority = p]
    /\ UNCHANGED <<feedbackLog, fbReq>> /\ FormFrame

\* 900 ms after the effect ran its timeout fires: the classify request for
\* the text of its closure is posted
TimerFires ==
    /\ form.timer # <<>>
    /\ form' = [form EXCEPT !.timer = <<>>, !.fetches = form.fetches \cup {form.timer[1]}]
    /\ UNCHANGED <<feedbackLog, fbReq>> /\ FormFrame

\* the fetch of classify request x settles: answered (r.ok), the callback
\* shows the suggestion for the text the request carried; failed (the
\* fetch rejects or !r.ok), it shows the error; it clears the indicator
ClassifySettles(x, answered) ==
    /\ x \in form.fetches
    /\ form' = [form EXCEPT
                   !.fetches = form.fetches \ {x},
                   !.aiSuggestion = IF answered
                                    THEN <<[priority |-> PriorityOf(x.text), text |-> x.text]>>
                                    ELSE <<>>,
                   !.aiErr = IF answered THEN form.aiErr ELSE TRUE,
                   !.aiLoading = FALSE]
    /\ UNCHANGED <<feedbackLog, fbReq>> /\ FormFrame

\* a click on Accept, rendered when !aiLoading && aiSuggestion: acceptAi
acceptAi(r) ==
    /\ ~form.aiLoading /\ form.aiSuggestion # <<>>
    /\ r \in FreeFb /\ \A q \in FreeFb : r <= q
    /\ form' = Sent([form EXCEPT !.priority = form.aiSuggestion[1].priority], r)
    /\ fbReq' = Posted(r, "accept", form.aiSuggestion[1].priority,
                       form.aiSuggestion[1].priority)
    /\ UNCHANGED feedbackLog /\ FormFrame

\* the call of createIncident that onCreate awaits, with the feedback
\* request posted before it (0: none) and, once the incident is created,
\* the feedback requests sent while it was drafted (history)
CreateCall(r) == [state |-> "pending", fb |-> r, records |-> <<>>]

\* a click on Create Incident, enabled unless loading || !title: onCreate
\* up to its await of createIncident.  r is the feedback request it
\* posts, 0 when it posts none
onCreate(r) ==
    /\ ~form.loading /\ form.title # 0
    /\ Len(form.creates) < MaxCreate
    /\ IF form.aiSuggestion # <<>> /\ form.aiSuggestion[1].priority # form.priority
       THEN /\ r \in FreeFb /\ \A q \in FreeFb : r <= q
            /\ form' = [Sent(form, r) EXCEPT !.creates = Append(form.creates, CreateCall(r))]
            /\ fbReq' = Posted(r, "override", form.aiSuggestion[1].priority, form.priority)
       ELSE /\ r = 0
            /\ form' = [form EXCEPT !.creates = Append(form.creates, CreateCall(0))]
            /\ UNCHANGED fbReq
    /\ UNCHANGED feedbackLog /\ FormFrame

\* createIncident of call c settles: fulfilled, onCreate resets the form
\* and awaits fetchList; rejected, it alerts
CreateSettles(c, fulfilled) ==
    /\ c \in 1..Len(form.creates)
    /\ form.creates[c].state = "pending"
    /\ NotAwaited(form.creates[c].fb)
    /\ form' = IF fulfilled
               THEN [onReset(form) EXCEPT !.creates[c].state = "listing",
                                          !.creates[c].records = form.sent,
                                          !.loading = TRUE]
               ELSE [form EXCEPT !.creates[c].state = "failed"]
    /\ UNCHANGED <<feedbackLog, fbReq>> /\ FormFrame

\* the fetchList that call c of onCreate awaits settles: onCreate returns
ListSettles(c) ==
    /\ c \in 1..Len(form.creates)
    /\ form.creates[c].state = "listing"
    /\ form' = [form EXCEPT !.creates[c].state = "done", !.loading = FALSE]
    /\ UNCHANGED <<feedbackLog, fbReq>> /\ FormFrame

\* the fetchList of the mount settles
MountSettles ==
    /\ form.mounting
    /\ form' = [form EXCEPT !.mounting = FALSE, !.loading = FALSE]
    /\ UNCHANGED <<feedbackLog, fbReq>> /\ FormFrame

\* a click on Reset, enabled unless loading
ClickReset ==
    /\ ~form.loading
    /\ form' = onReset(form)
    /\ UNCHANGED <<feedbackLog, fbReq>> /\ FormFrame

\* the fetch of feedback request r rejects before the service has handled
\* the request: sendMlFeedback swallows the error
FbLost(r) ==
    /\ fbReq[r].pc = "mkdir"
    /\ fbReq' = [fbReq EXCEPT ![r].pc = "lost"]
    /\ UNCHANGED <<feedbackLog, form>> /\ FormFrame

\* the user works on the title, the description left empty
FormNext ==
    \/ \E v \in FieldValues : EditTitle(v)
    \/ \E p \in PickedPriorities : SelectPriority(p)
    \/ TimerFires
    \/ \E n \in 1..MaxClassify, text \in FormTexts, answered \in BOOLEAN :
           ClassifySettles([n |-> n, text |-> text], answered)
    \/ \E r \in FbIds : acceptAi(r)
    \/ \E r \in FbIds \cup {0} : onCreate(r)
    \/ \E c \in 1..MaxCreate, fulfilled \in BOOLEAN : CreateSettles(c, fulfilled)
    \/ \E c \in 1..MaxCreate : ListSettles(c)
    \/ MountSettles
    \/ ClickReset
    \/ \E r \in FbIds : FbLost(r)
    \/ \E r \in FbIds, fulfilled \in BOOLEAN : FbMkdir(r, fulfilled)
    \/ \E r \in FbIds, fulfilled \in BOOLEAN : FbWrite(r, fulfilled)

\* the page has just been opened against a service that has just started
FormInit ==
    /\ disk = [p \in 1..Len(MODEL_PATHS) |-> 1]
    /\ Fresh
    /\ Elsewhere

FormSpec == FormInit /\ [][FormNext]_vars

\* the user works on both fields and on Reset, and creates nothing
SuggestNext ==
    \/ \E v \in FieldValues : EditTitle(v)
    \/ \E v \in FieldValues : EditDescription(v)
    \/ TimerFires
    \/ \E n \in 1..MaxClassify, text \in FormTexts, answered \in BOOLEAN :
           ClassifySettles([n |-> n, text |-> text], answered)
    \/ MountSettles
    \/ ClickReset

SuggestSpec == FormInit /\ [][SuggestNext]_vars

(* ------------------------------------------------------------------ *)
(* The ServiceNow hooks of one incident                                *)
(* ------------------------------------------------------------------ *)
Hook(h) == sn.hooks[h]

\* what a step of a hook leaves alone
SnFrame ==
    UNCHANGED <<disk, MODEL, LOADED_FROM, lastIndex, req, trained, feedbackLog, modelArt, call,
                fbReq, form, inc>>

\* withRetry(fn) is called from hook k: its first iteration awaits fn()
Retrying(k, op) == [k EXCEPT !.pc = "try", !.op = op, !.i = 0]

\* POST /incidents has answered 201 and calls onIncidentCreated, which
\* returns at once when the SN_* variables are missing
StartCreated ==
    /\ Hook(1).pc = "idle"
    /\ sn' = [sn EXCEPT !.hooks[1] = IF sn.configured
                                     THEN Retrying(Hook(1), "create")
                                     ELSE [Hook(1) EXCEPT !.pc = "done"]]
    /\ SnFrame

\* PATCH /incidents/:id has answered 200 and calls onIncidentUpdated,
\* which runs up to its await of getSysId
StartUpdated(h) ==
    /\ h > 1
    /\ Hook(h).pc = "idle"
    /\ \A g \in 1..(h - 1) : Hook(g).pc # "idle"
    /\ sn' = [sn EXCEPT !.hooks[h] = IF sn.configured
                                     THEN [Hook(h) EXCEPT !.pc = "get", !.stored = sn.link]
                                     ELSE [Hook(h) EXCEPT !.pc = "done"]]
    /\ SnFrame

\* getSysId settles in onIncidentUpdated: with a sys_id the hook patches
\* the ticket, without one it creates a ticket; a rejected query ends
\* the hook
GetSysId(h, fulfilled) ==
    /\ Hook(h).pc = "get"
    /\ sn' = [sn EXCEPT !.hooks[h] =
                 IF fulfilled
                 THEN Retrying([Hook(h) EXCEPT !.sysId = sn.link],
                               IF sn.link # 0 THEN "update" ELSE "create")
                 ELSE [Hook(h) EXCEPT !.pc = "rejected", !.err = -1]]
    /\ SnFrame

\* fn() settles in withRetry.  Fulfilled, withRetry returns its result:
\* snCreate has made a ticket and the hook awaits upsertSysId, snUpdate
\* has patched the ticket sysId and the hook returns.  Rejected, withRetry
\* keeps the error and awaits its timeout
Attempt(h, fulfilled) ==
    /\ Hook(h).pc = "try"
    /\ IF ~fulfilled
       THEN sn' = [sn EXCEPT !.hooks[h] = [Hook(h) EXCEPT !.pc = "backoff",
                                                           !.attempts = Hook(h).attempts + 1,
                                                           !.lastErr = Hook(h).attempts + 1]]
       ELSE IF Hook(h).op = "create"
       THEN sn' = [sn EXCEPT !.tickets = sn.tickets + 1,
                             !.hooks[h] = [Hook(h) EXCEPT !.pc = "upsert",
                                                          !.attempts = Hook(h).attempts + 1,
                                                          !.ok = Hook(h).ok \cup {Hook(h).attempts + 1},
                                                          !.result = sn.tickets + 1,
                                                          !.made = Hook(h).made + 1]]
       ELSE sn' = [sn EXCEPT !.hooks[h] = [Hook(h) EXCEPT !.pc = "done",
                                                           !.attempts = Hook(h).attempts + 1,
                                                           !.ok = Hook(h).ok \cup {Hook(h).attempts + 1},
                                                           !.result = Hook(h).sysId,
                                                           !.patched = Hook(h).sysId]]
    /\ SnFrame

\* the timeout of withRetry fires after Delay(i) ms: the loop goes on
\* with i + 1, and past the last iteration withRetry throws lastErr
Backoff(h) ==
    /\ Hook(h).pc = "backoff"
    /\ sn' = [sn EXCEPT !.hooks[h] =
                 IF Hook(h).i + 1 < tries
                 THEN [Hook(h) EXCEPT !.pc = "try", !.i = Hook(h).i + 1,
                                      !.waits = Append(Hook(h).waits, Delay(Hook(h).i))]
                 ELSE [Hook(h) EXCEPT !.pc = "rejected", !.i = Hook(h).i + 1,
                                      !.err = Hook(h).lastErr,
                                      !.waits = Append(Hook(h).waits, Delay(Hook(h).i))]]
    /\ SnFrame

\* upsertSysId settles: fulfilled, the row of the incident holds the
\* sys_id and the hook returns; rejected, the hook ends
Upsert(h, fulfilled) ==
    /\ Hook(h).pc = "upsert"
    /\ sn' = IF fulfilled
             THEN [sn EXCEPT !.link = Hook(h).result, !.hooks[h].pc = "done"]
             ELSE [sn EXCEPT !.hooks[h] = [Hook(h) EXCEPT !.pc = "rejected", !.err = -1]]
    /\ SnFrame

SnNext ==
    \/ StartCreated
    \/ \E h \in HookIds : StartUpdated(h)
    \/ \E h \in HookIds, fulfilled \in BOOLEAN : GetSysId(h, fulfilled)
    \/ \E h \in HookIds, fulfilled \in BOOLEAN : Attempt(h, fulfilled)
    \/ \E h \in HookIds : Backoff(h)
    \/ \E h \in HookIds, fulfilled \in BOOLEAN : Upsert(h, fulfilled)

\* the API has started, with or without the SN_* variables
SnInit ==
    /\ disk = [p \in 1..Len(MODEL_PATHS) |-> 1]
    /\ Fresh
    /\ form = NoForm /\ inc = NoInc
    /\ sn \in {NoSn, [NoSn EXCEPT !.configured = FALSE]}

SnSpec == SnInit /\ [][SnNext]_vars

\* the request of fn() settles (fetch gives up on a silent peer) and the
\* timeout of withRetry fires
SnFair ==
    \A h \in HookIds :
        /\ WF_vars(\E fulfilled \in BOOLEAN : Attempt(h, fulfilled))
        /\ WF_vars(Backoff(h))

SnFairSpec == SnSpec /\ SnFair

(* ------------------------------------------------------------------ *)
(* PATCH /incidents/:id, its requests in flight together               *)
(* ------------------------------------------------------------------ *)

Patch(r) == inc.reqs[r]

PatchFrame ==
    UNCHANGED <<disk, MODEL, LOADED_FROM, lastIndex, req, trained, feedbackLog, modelArt, call,
                fbReq, form, sn>>

\* res.status(code).json({ ok: false, reason })
Refused(q, code, reason) == [q EXCEPT !.pc = "done", !.code = code, !.reason = reason]

\* the handler from the check of the data on: without a key it answers
\* 400, with one it awaits incident.update
Checked(q) ==
    IF NoKeys(q.data) THEN Refused(q, 400, "no_fields_to_update") ELSE [q EXCEPT !.pc = "update"]

\* a PATCH arrives and the handler runs up to its first await or answer
PatchArrives(r, id, status, assetId) ==
    /\ Patch(r).pc = "idle"
    /\ \A g \in 1..(r - 1) : Patch(g).pc # "idle"
    /\ \E q \in {[Patch(r) EXCEPT !.id = id, !.status = status, !.assetId = assetId,
                                  !.data = Data(status, assetId)]} :
        inc' = [inc EXCEPT !.reqs[r] =
                   IF id <= 0 THEN Refused(q, 400, "bad_id")
                   ELSE IF assetId \in {"null", "undefined"} THEN Checked(q)
                   ELSE IF Number(assetId) <= 0 THEN Refused(q, 400, "bad_asset_id")
                   ELSE [q EXCEPT !.pc = "findAsset"]]
    /\ PatchFrame

\* asset.findUnique settles: without the asset the handler answers 400,
\* with it data names the asset and the handler goes on
FindAssetSettles(r) ==
    /\ Patch(r).pc = "findAsset"
    /\ inc' = [inc EXCEPT !.reqs[r] =
                  IF Number(Patch(r).assetId) \notin Assets
                  THEN Refused(Patch(r), 400, "asset_not_found")
                  ELSE Checked([Patch(r) EXCEPT
                                   !.data.assetId = Some(Some(Number(Patch(r).assetId)))])]
    /\ PatchFrame

\* incident.update settles: without the incident it throws P2025 and the
\* handler answers 404, with it the row is updated and sent with a 200;
\* onIncidentUpdated then returns at once, the API running without the
\* SN_* variables
UpdateSettles(r) ==
    /\ Patch(r).pc = "update"
    /\ IF Patch(r).id \notin DOMAIN inc.rows
       THEN inc' = [inc EXCEPT !.reqs[r] = Refused(Patch(r), 404, "incident_not_found")]
       ELSE \E row \in {Applied(inc.rows[Patch(r).id], Patch(r).data)} :
               inc' = [inc EXCEPT !.rows[Patch(r).id] = row,
                                  !.reqs[r] = [Patch(r) EXCEPT !.pc = "done", !.code = 200,
                                                               !.incident = Some(row)]]
    /\ PatchFrame

PatchNext ==
    \/ \E r \in PatchIds, id \in IdParams, status \in StatusInputs, assetId \in AssetInputs :
          PatchArrives(r, id, status, assetId)
    \/ \E r \in PatchIds : FindAssetSettles(r)
    \/ \E r \in PatchIds : UpdateSettles(r)

\* the API has started without the SN_* variables; incident 1 is open,
\* with or without an asset
PatchInit ==
    /\ disk = [p \in 1..Len(MODEL_PATHS) |-> 1]
    /\ Fresh
    /\ form = NoForm
    /\ sn = [NoSn EXCEPT !.configured = FALSE]
    /\ inc \in {NoInc, [NoInc EXCEPT !.rows[1].assetId = Some(1)]}

PatchSpec == PatchInit /\ [][PatchNext]_vars

(* ------------------------------------------------------------------ *)
(* Properties of the service                                           *)
(* ------------------------------------------------------------------ *)
Done(r) == req[r].pc = "done"

\* the request ran with a model in MODEL: it found one as it arrived
\* (it read no file), or it assigned one itself
RanLoaded(r) == Done(r) /\ (req[r].buf = 0 \/ req[r].installed)

\* the title and description of body b yield no token
EmptyTokens(b) ==
    Len(TokensOf(StringOr(Bodies[b].title), StringOr(Bodies[b].description))) = 0

\* the object holding the vocabulary, and the one holding the counts
RootOf(o) == IF IsDefined(o.classifier) THEN o.classifier[1] ELSE o
InnerOf(c) == IF IsDefined(c.classifier) THEN c.classifier[1] ELSE c

\* the artifact lacks the vocabulary, the per-class token counts or the
\* per-class document counts
LacksPart(o) ==
    \/ ~IsDefined(RootOf(o).features)
    \/ ~IsDefined(InnerOf(RootOf(o)).classFeatures)
    \/ ~IsDefined(InnerOf(RootOf(o)).classTotals)

\* no artifact could be read and parsed, or the parsed one is malformed
Unusable(a) == a.kind # "object" \/ LacksPart(a.obj)

\* C1: a request whose load ends on an artifact that cannot be read and
\* parsed, or that lacks the vocabulary, the per-class token counts or the
\* per-class document counts, fails with "Not Trained" and leaves MODEL
\* unassigned.
C1_UnusableArtifactFailsUnloaded ==
    \A r \in ReqIds :
        Done(r) /\ req[r].buf # 0 /\ Unusable(Artifacts[req[r].buf])
            => req[r].err = "Not Trained" /\ ~req[r].installed

\* C2: a request that arrives when every earlier request has failed with
\* "Not Trained" and the artifact the loader reads is a valid one returns a
\* classification result computed on a model loaded from a valid artifact.
C2_RecoversOnceArtifactValid ==
    \A r \in ReqIds :
        Done(r) /\ req[r].must
            => /\ req[r].err = ""
               /\ req[r].mdlArt # 0
               /\ ValidArtifact(Artifacts[req[r].mdlArt])

\* the response carrying the neutral default
DefaultAnswer == <<Response(200, TRUE, "", "MEDIUM", RZero, Undefined)>>

\* C3: every request whose title and description yield no token is
\* answered with the neutral default, priority MEDIUM, confidence 0 and no
\* tag, whether or not a model can be loaded.
C3_EmptyInputAlwaysDefault ==
    \A r \in ReqIds :
        Done(r) /\ EmptyTokens(req[r].body) => req[r].sent = DefaultAnswer

\* C4: every request is answered with exactly one response and no
\* exception leaves the handler; a failure with "Not Trained" is answered
\* with status 200 and {ok: false, reason: "not_trained"}. The same holds
\* of the older variant of the handler on every body and artifact.
C4_NotTrainedIsSentinel ==
    /\ \A r \in ReqIds :
          Done(r) => /\ Len(req[r].sent) = 1
                     /\ ~req[r].thrown
                     /\ req[r].err = "Not Trained"
                          => /\ req[r].sent[1].status = 200
                             /\ ~req[r].sent[1].body.ok
                             /\ req[r].sent[1].body.reason = "not_trained"
    /\ \A b \in BodyIds, p \in 1..Len(MODEL_PATHS) :
          LET text == RawTextOf(StringOr(Bodies[b].title), StringOr(Bodies[b].description))
              a == Artifacts[disk[MODEL_PATHS[p]]]
              h == classifyHandlerV2(text, a)
          IN  /\ Len(h.sent) = 1
              /\ ~h.thrown
              /\ Len(text) >= MinTextV2 /\ ~ReadParses(a)
                   => /\ h.sent[1].status = 200
                      /\ ~h.sent[1].body.ok
                      /\ h.sent[1].body.reason = "not_trained"

\* C4 happens: a request has failed with "Not Trained" and got the sentinel
C4_Witness ==
    \E r \in ReqIds :
        /\ Done(r) /\ req[r].err = "Not Trained"
        /\ req[r].sent = <<Response(200, FALSE, "not_trained", "", RZero, Undefined)>>

\* C5: a request fails only with "Not Trained", and only when it runs
\* without a model loaded; a request that runs with a model loaded gets a
\* classification result.
C5_OnlyNotTrainedAndOnlyUnloaded ==
    \A r \in ReqIds :
        Done(r) => /\ req[r].err \in {"", "Not Trained"}
                   /\ RanLoaded(r) => req[r].err = ""

\* C6: at most one request at a time is reading the artifact, and at most
\* one request assigns MODEL.
C6_LoadIsGuarded ==
    /\ Cardinality({r \in ReqIds : req[r].pc \in {"reading", "readDone"}}) <= 1
    /\ Cardinality({r \in ReqIds : req[r].installed}) <= 1

\* the response to body b after a single load from the disk as it is
SingleLoadAnswer(b) ==
    LET a == Artifacts[LoadSource(disk, 1)]
    IN  IF a.kind # "object" \/ ~ShapeOf(a.obj).ok
        THEN classifyHandler(LoadFailed(lastIndex)).sent
        ELSE classifyHandler(smartClassify(ShapeOf(a.obj).model[1], Bodies[b],
                                           lastIndex)).sent

\* C7: every request that computed scores did so on a model in MODEL whose
\* five parameters are those extracted from one artifact read; and while
\* no artifact has been replaced, every request is answered as it would be
\* after a single load.
C7_RedundantReloadsHarmless ==
    /\ \A r \in ReqIds :
          Done(r) /\ req[r].scored
              => /\ req[r].mdl # NoModel
                 /\ req[r].mdlArt \in ArtifactIds
                 /\ req[r].mdl = ShapeOf(Artifacts[req[r].mdlArt].obj).model
    /\ trained = 0
          => \A r \in ReqIds : Done(r) => req[r].sent = SingleLoadAnswer(req[r].body)

\* C7 happens: two requests have each loaded the model and computed scores
C7_Witness ==
    \E r1, r2 \in ReqIds :
        /\ r1 # r2
        /\ Done(r1) /\ req[r1].installed /\ req[r1].scored
        /\ Done(r2) /\ req[r2].installed /\ req[r2].scored

\* C8: once MODEL is set, no step changes it.
C8_LoadedModelNeverChanges == [][MODEL # NoModel => MODEL' = MODEL]_vars

\* C9: two requests with the same title and description that ran with the
\* same model loaded got the same response: priority, confidence and tag.
C9_Deterministic ==
    \A r1, r2 \in ReqIds :
        /\ RanLoaded(r1) /\ RanLoaded(r2)
        /\ req[r1].body = req[r2].body
        /\ req[r1].mdl = req[r2].mdl
        => req[r1].sent = req[r2].sent

\* C9 happens: two requests with the same text ran on the same model, a
\* rule fired, and a feedback request was served
C9_Witness ==
    \E r1, r2 \in ReqIds :
        /\ r1 # r2
        /\ RanLoaded(r1) /\ RanLoaded(r2)
        /\ req[r1].body = req[r2].body
        /\ req[r1].mdl = req[r2].mdl
        /\ req[r1].scored
        /\ IsDefined(req[r1].sent[1].body.inferredType)
        /\ Len(feedbackLog) > 0

\* c lies in [0, 1] and is the greatest entry of probs, a distribution
\* over at least one class whose entries sum to 1
IsMaxOfDistribution(c, probs) ==
    /\ Len(probs) > 0
    /\ RSum(ObjectValues(probs), Len(probs)) = ROne
    /\ \E i \in 1..Len(probs) : probs[i].v = c
    /\ \A i \in 1..Len(probs) : RLeq(RZero, probs[i].v) /\ RLeq(probs[i].v, c)
    /\ RLeq(RZero, c) /\ RLeq(c, ROne)

Classified(c, t) ==
    c.fn = "smartClassify" /\ c.arg = t /\ c.out.err = "" /\ c.out.scored

\* pairs <<t, u>>: Texts[t] matches no rule and Texts[u] is Texts[t] with a
\* phrase inserted that matches a critical rule
CriticalInsertions == {<<1, 2>>}

\* some HIGH rule's test succeeds on the lower-cased text
HighFires(text) ==
    \E j \in 1..Len(HIGH_RULES) :
        RxTest(HIGH_RULES[j], SearchTable.high[j][text], Len(text), 0).m

\* some CRITICAL rule's test succeeds on the lower-cased text
CriticalFires(text) ==
    \E j \in 1..Len(CRITICAL_RULES) :
        RxTest(CRITICAL_RULES[j], SearchTable.critical[j][text], Len(text), 0).m

\* probs as classifyTokens computes them with the two boost loops skipped
UnboostedProbs(model, tokens) == Softmax(RawLogScores(model, tokens))

\* C11, as stated: whatever the loaded model, classifying a text with a
\* critical phrase inserted right after classifying the text without it
\* gives CRITICAL a probability that is not lower.
C11_InsertionNeverLowersCritical ==
    [][\A pr \in CriticalInsertions :
           (/\ Classified(call, pr[1]) /\ Classified(call', pr[2])
            /\ HasKey(call.out.probs, "CRITICAL"))
               => PLeq(Get(call.out.probs, "CRITICAL"), Get(call'.out.probs, "CRITICAL"))]_vars

\* C11, amended: for a model with a CRITICAL class and a text on which no
\* HIGH rule fires, the probability classify gives CRITICAL is not lower
\* than the one the same tokens get with the boost loops skipped.
C11_BoostNeverLowersCritical ==
    \A t \in TextIds :
        (/\ Classified(call, t)
         /\ HasKey(call.out.probs, "CRITICAL")
         /\ ~HighFires(toLowerCase(RawTextOf(Texts[t], <<>>))))
            => PLeq(Get(UnboostedProbs(MODEL[1], TokensOf(Texts[t], <<>>)), "CRITICAL"),
                    Get(call.out.probs, "CRITICAL"))

\* C11 happens: the text with the inserted phrase was classified on the
\* third model, a critical rule fired and no HIGH rule did, and CRITICAL's
\* probability is strictly above the unboosted one
C11_Witness ==
    /\ Classified(call, 2) /\ modelArt = 12
    /\ IsDefined(call.out.inferredType)
    /\ ~HighFires(toLowerCase(RawTextOf(Texts[2], <<>>)))
    /\ PLess(Get(UnboostedProbs(MODEL[1], TokensOf(Texts[2], <<>>)), "CRITICAL"),
             Get(call.out.probs, "CRITICAL"))

\* a pattern with every letter it names in lower case
RECURSIVE FoldCase(_)
FoldCase(n) ==
    CASE n.t = "lit" -> Lit(ToTuple(toLowerCase(n.s), Len(n.s)))
      [] n.t = "ch" -> Ch({LowerChar(c) : c \in n.s})
      [] n.t \in {"cat", "alt"} ->
           [n EXCEPT !.ns = ToTuple([k \in 1..Len(n.ns) |-> FoldCase(n.ns[k])], Len(n.ns))]
      [] n.t \in {"opt", "star", "plus"} -> [n EXCEPT !.n = FoldCase(n.n)]
      [] OTHER -> n

\* the rule matches the raw text when letter case is ignored
MatchesIgnoringCase(rule, rawText) ==
    \E i \in 0..Len(rawText) :
        Ends(FoldCase(rule.rx), ToTuple(toLowerCase(rawText), Len(rawText)), i) # {}

\* the number of rules of a list that match the raw text
Matching(rules, rawText) ==
    Cardinality({j \in 1..Len(rules) : MatchesIgnoringCase(rules[j], rawText)})

\* the direct call c was applyDomainBoost
Boosted(c) == c.fn = "applyDomainBoost"

\* logScores[k] after the call is logScores[k] before it plus boost * n
RaisedBy(c, i, boost, n) ==
    c.out.scores[i].v = LsAddBoost(ScoreObjects[c.arg[2]][i].v, boost * n)

\* C12: after applyDomainBoost the CRITICAL log-score is the one passed in
\* plus BOOST_CRITICAL for every critical rule that matches the text, the
\* HIGH log-score the one passed in plus BOOST_HIGH for every high rule
\* that matches, and every other log-score is the one passed in.
C12_BoostsAdditiveUncapped ==
    Boosted(call) =>
        \A i \in 1..Len(ScoreObjects[call.arg[2]]) :
            /\ call.out.scores[i].k = ScoreObjects[call.arg[2]][i].k
            /\ RaisedBy(call, i,
                        IF call.out.scores[i].k = "CRITICAL" THEN BOOST_CRITICAL
                        ELSE IF call.out.scores[i].k = "HIGH" THEN BOOST_HIGH ELSE 0,
                        IF call.out.scores[i].k = "CRITICAL"
                        THEN Matching(CRITICAL_RULES, Texts[call.arg[1]])
                        ELSE Matching(HIGH_RULES, Texts[call.arg[1]]))

\* the tags of the rules that match the raw text, the critical list first
MatchingTags(rawText) ==
    TagsFrom(CRITICAL_RULES,
             [j \in 1..Len(CRITICAL_RULES) |->
                 [m |-> MatchesIgnoringCase(CRITICAL_RULES[j], rawText)]], 1)
    \o TagsFrom(HIGH_RULES,
                [j \in 1..Len(HIGH_RULES) |->
                    [m |-> MatchesIgnoringCase(HIGH_RULES[j], rawText)]], 1)

\* the first of a list of tags, absent when the list is empty
FirstTag(tags) == IF Len(tags) > 0 THEN Some(tags[1]) ELSE Undefined

\* C13: the tag smartClassify returns is the tag of the first rule that
\* matches the raw text, the critical list taken before the high list, and
\* it is absent exactly when no rule matches.
C13_TagIsFirstMatchingRule ==
    \A t \in TextIds :
        (call.fn = "smartClassify" /\ call.arg = t /\ call.out.err = "")
            => call.out.inferredType = FirstTag(MatchingTags(RawTextOf(Texts[t], <<>>)))

(* ------------------------------------------------------------------ *)
(* Properties of direct calls: tokenization                            *)
(* ------------------------------------------------------------------ *)
\* C14: the features the trainer counts for a text are the sequence the
\* classifier's tokenize produces for the same text.
C14_TrainerTokensAreClassifierTokens ==
    call.fn = "addDocument" => call.out = tokenizeOrEmpty(TokenizeArgs[call.arg])

\* the four suffix rules: the suffix and the length that must be exceeded
SuffixRules == << <<<<"i", "n", "g">>, 5>>, <<<<"e", "d">>, 4>>, <<<<"e", "s">>, 4>>, <<<<"s">>, 3>> >>

\* lightStem(w) returned w without the suffix of rule j
StrippedBy(j, w, out) ==
    endsWith(w, SuffixRules[j][1]) /\ out = sliceEnd(w, Len(SuffixRules[j][1]))

\* rule j's suffix ends w and w is longer than the rule's length
Applies(j, w) == endsWith(w, SuffixRules[j][1]) /\ Len(w) > SuffixRules[j][2]

\* C15, as stated: a suffix is stripped only when the stem that results is
\* longer than the rule's length (5 for ing, 4 for ed and es, 3 for s).
C15_StrippedOnlyIfStemLongEnough ==
    call.fn = "lightStem" =>
        \A j \in 1..Len(SuffixRules) :
            (call.out # Words[call.arg] /\ StrippedBy(j, Words[call.arg], call.out))
                => Len(call.out) > SuffixRules[j][2]

\* C15, amended: a suffix is stripped only when the token itself, before
\* stripping, is longer than the rule's length, and a token to which no
\* rule applies in that sense is returned unchanged.
C15_StrippedOnlyIfTokenLongEnough ==
    call.fn = "lightStem" =>
        IF \E j \in 1..Len(SuffixRules) : Applies(j, Words[call.arg])
        THEN \E j \in 1..Len(SuffixRules) :
                 Applies(j, Words[call.arg]) /\ StrippedBy(j, Words[call.arg], call.out)
        ELSE call.out = Words[call.arg]

\* C15 happens: a suffix was stripped and left a stem that is not longer
\* than the rule's length
C15_Witness ==
    /\ call.fn = "lightStem"
    /\ \E j \in 1..Len(SuffixRules) :
           /\ Applies(j, Words[call.arg]) /\ StrippedBy(j, Words[call.arg], call.out)
           /\ Len(call.out) <= SuffixRules[j][2]

\* the first rule, in the order ing, ed, es, s, that applies to w; 0 if none
FirstRule(w) ==
    IF \E j \in 1..Len(SuffixRules) : Applies(j, w)
    THEN CHOOSE j \in 1..Len(SuffixRules) :
             Applies(j, w) /\ \A k \in 1..(j - 1) : ~Applies(k, w)
    ELSE 0

\* C16: lightStem strips the suffix of the first rule that applies, in the
\* order ing, ed, es, s, and nothing more: one suffix at most.
C16_FirstRuleOnly ==
    call.fn = "lightStem" =>
        call.out = IF FirstRule(Words[call.arg]) = 0 THEN Words[call.arg]
                   ELSE sliceEnd(Words[call.arg],
                                 Len(SuffixRules[FirstRule(Words[call.arg])][1]))

\* C16 happens: two rules apply to the token and only the first one's
\* suffix went, and a token ending in "ings" has lost only its "s"
C16_Witness ==
    /\ call.fn = "lightStem"
    /\ \/ /\ Cardinality({j \in 1..Len(SuffixRules) : Applies(j, Words[call.arg])}) > 1
          /\ StrippedBy(FirstRule(Words[call.arg]), Words[call.arg], call.out)
       \/ /\ endsWith(Words[call.arg], <<"i", "n", "g", "s">>)
          /\ call.out = sliceEnd(Words[call.arg], 1)

\* every maximal run of letters and digits of the text is a stopword once
\* lower-cased
OnlyStopwords(text) ==
    \A i \in 1..Len(text) :
        LowerChar(text[i]) \in TokenChars =>
            \E a \in 1..i, b \in i..Len(text) :
                /\ a = 1 \/ LowerChar(text[a - 1]) \notin TokenChars
                /\ b = Len(text) \/ LowerChar(text[b + 1]) \notin TokenChars
                /\ \A k \in a..b : LowerChar(text[k]) \in TokenChars
                /\ ToChars([k \in 1..(b - a + 1) |-> LowerChar(text[a + k - 1])]) \in STOP

\* C17: tokenize of a text made of stopwords only, in any letter case and
\* with any separators, is empty, and so is tokenize of an empty or
\* missing text.
C17_StopwordsGiveNoTokens ==
    (/\ call.fn = "tokenize"
     /\ \/ TokenizeArgs[call.arg] = Undefined
        \/ OnlyStopwords(TokenizeArgs[call.arg][1]))
        => call.out = <<>>

\* C17 happens: tokenize was called on a non-empty text of stopwords in
\* mixed case with punctuation between them
C17_Witness ==
    /\ call.fn = "tokenize" /\ call.out = <<>>
    /\ TokenizeArgs[call.arg] # Undefined
    /\ OnlyStopwords(TokenizeArgs[call.arg][1])
    /\ \E i, j \in 1..Len(TokenizeArgs[call.arg][1]) :
           /\ TokenizeArgs[call.arg][1][i] \in Range(UpperChars)
           /\ TokenizeArgs[call.arg][1][j] \in {",", ";", "-", "!"}

\* C18: tokenize("inspections") contains the token "inspect".
C18_InspectionsContainsInspect ==
    (call.fn = "tokenize" /\ TokenizeArgs[call.arg] = Some(<<"i", "n", "s", "p", "e", "c", "t", "i", "o", "n", "s">>))
        => \E i \in 1..Len(call.out) : call.out[i] = <<"i", "n", "s", "p", "e", "c", "t">>

\* the parameters a trained classifier holds, as a model
TrainedModel(c) ==
    [ features |-> c.features[1],
      classFeatures |-> c.classifier[1].classFeatures[1],
      classTotals |-> c.classifier[1].classTotals,
      totalExamples |-> c.classifier[1].totalExamples,
      smoothing |-> c.classifier[1].smoothing[1] ]

\* the trainer has just written its artifact
JustSaved == call.fn = "main" /\ call.out.wrote

\* C19: the file the trainer writes is accepted by the loader and gives
\* the vocabulary, per-class token counts, per-class document counts,
\* total document count and smoothing of the trained classifier; a
\* classifier that reads the written file is loaded with these; and the
\* nested and the flat shape of the same parameters load to the same model
C19_RoundTrip ==
    /\ JustSaved =>
           /\ ShapeOf(call.out.file).ok
           /\ ShapeOf(call.out.file).model = Some(TrainedModel(Trained[call.arg[2]]))
           /\ Artifacts[disk[MODEL_PATHS[1]]].obj = call.out.file
    /\ (call.fn = "smartClassify" /\ \E p \in TrainedIds : disk[MODEL_PATHS[1]] = TrainedAs[p])
           => MODEL # NoModel
    /\ \A p \in TrainedIds :
           (MODEL # NoModel /\ modelArt = TrainedAs[p]) => MODEL = Some(TrainedModel(Trained[p]))
    /\ (MODEL # NoModel /\ modelArt \in {4, 5}) => MODEL = Some(TrainedModel(Trained[1]))

\* a classifier loaded from the file a run of the trainer has written
C19_Witness ==
    /\ trained > 0
    /\ call.fn = "smartClassify"
    /\ modelArt = 11
    /\ MODEL = Some(TrainedModel(Trained[2]))

\* the rows of each of TrainingCsvs that have a text and one of the four
\* labels, counted by hand
UsableRows == <<0, 0, 0, 0, 2, 0, 1, 1, 1>>

\* C20: a run of the trainer on a CSV without a usable row ends with a
\* non-zero exit code and leaves every model file as it was
C20_EmptyCorpusWritesNothing ==
    [][ \A c \in CsvIds :
            (call'.fn = "main" /\ trained' = trained + 1 /\ call'.arg[1] = c /\ UsableRows[c] = 0)
                => (call'.out.exit # 0 /\ ~call'.out.wrote /\ disk' = disk) ]_vars

\* a run on rows with an unknown label or an empty text has failed and
\* the artifact written earlier is still in place
C20_Witness ==
    /\ call.fn = "main"
    /\ call.arg[1] = 4
    /\ call.out.exit = 1
    /\ disk[MODEL_PATHS[1]] = 4

(* ------------------------------------------------------------------ *)
(* Properties of direct calls: scoring                                 *)
(* ------------------------------------------------------------------ *)
\* the tokens of a list that are keys of the model's vocabulary
InVocabulary(model, tokens) == SelectSeq(tokens, LAMBDA tok : tok \in DOMAIN model.features)

\* log((docCount(c) + 1) / (totalDocs + numClasses)) for every class
SmoothedPriors(model) ==
    ToTuple([i \in 1..Len(model.classTotals[1]) |->
                Entry(model.classTotals[1][i].k,
                      LogRatio(model.classTotals[1][i].v + 1,
                               Coalesce(model.totalExamples, 1) + Len(model.classTotals[1])))],
            Len(model.classTotals[1]))

\* classifyTokens has just returned for TokenLists[k]
ScoredList(k) == call.fn = "classifyTokens" /\ call.arg = k /\ call.out.res.err = ""

\* C25: after classifyTokens on any token list, the raw log-score of every
\* class equals the score of the list without its out-of-vocabulary
\* tokens, and it is the smoothed prior when no token is in the vocabulary
C25_OutOfVocabularyAddsNothing ==
    \A k \in TokenListIds :
        ScoredList(k) =>
            /\ call.out.logScores = RawLogScores(MODEL[1], InVocabulary(MODEL[1], TokenLists[k]))
            /\ InVocabulary(MODEL[1], TokenLists[k]) = <<>>
                   => call.out.logScores = SmoothedPriors(MODEL[1])

\* C26: the rules that fire in applyDomainBoost are the rules that match
\* the raw text when letter case is ignored, in the text and in every
\* alternative of the pattern
C26_RulesFireIgnoringCase ==
    Boosted(call) => call.out.tags = MatchingTags(Texts[call.arg[1]])

\* label is a class of the model, no class has a higher probability, and
\* no class before it in the model's class order has the same probability
FirstOfTheHighest(model, probs, label) ==
    /\ HasKey(model.classTotals[1], label)
    /\ HasKey(probs, label)
    /\ \A i \in 1..Len(probs) : PLeq(probs[i].v, Get(probs, label))
    /\ \A i \in 1..Len(model.classTotals[1]) :
           Get(probs, model.classTotals[1][i].k) = Get(probs, label)
               => \E j \in 1..i : model.classTotals[1][j].k = label

\* C27: a label returned for tokens, by classifyTokens or by smartClassify,
\* is a class of the loaded model with the highest probability, the first
\* such class in the model's class order
C27_FirstClassOfHighestProbability ==
    /\ (call.fn = "classifyTokens" /\ call.out.res.err = "")
           => FirstOfTheHighest(MODEL[1], call.out.res.probs, call.out.res.label)
    /\ (call.fn = "smartClassify" /\ call.out.err = "" /\ call.out.scored)
           => FirstOfTheHighest(MODEL[1], call.out.probs, call.out.priority)

\* two classes tie and the model lists HIGH before LOW
C27_Witness ==
    /\ call.fn = "classifyTokens"
    /\ call.out.res.err = ""
    /\ modelArt = 11
    /\ call.out.res.label = "HIGH"
    /\ Get(call.out.res.probs, "LOW") = Get(call.out.res.probs, "HIGH")

(* ------------------------------------------------------------------ *)
(* The feedback sink                                                   *)
(* ------------------------------------------------------------------ *)
\* the requests whose line is in the log
Logged == {r \in FbIds : fbReq[r].pos > 0}

\* every request answered 200 has its own line in the log, the line of
\* { ts, action, suggested, final } of its body, and the log holds no
\* other line
OneRecordEach ==
    /\ \A r \in FbIds :
           IF fbReq[r].pc = "done" /\ fbReq[r].status = 200
           THEN /\ fbReq[r].pos \in 1..Len(feedbackLog)
                /\ feedbackLog[fbReq[r].pos] = FeedbackLine(fbReq[r].body)
           ELSE fbReq[r].pos = 0
    /\ \A r1, r2 \in Logged : fbReq[r1].pos = fbReq[r2].pos => r1 = r2
    /\ Len(feedbackLog) = Cardinality(Logged)

\* a step keeps every line of the log where it is
KeepsLines ==
    /\ Len(feedbackLog') >= Len(feedbackLog)
    /\ SubSeq(feedbackLog', 1, Len(feedbackLog)) = feedbackLog

FeedbackFailed == {r \in FbIds : fbReq[r].pc = "lost" \/ fbReq[r].status = 500}
FeedbackPending == {r \in FbIds : fbReq[r].pc \in {"mkdir", "write"}}

\* a click on Accept: a request with action "accept" leaves the form
Accepts ==
    \E r \in FbIds :
        /\ fbReq[r].pc = "idle" /\ fbReq'[r].pc # "idle"
        /\ fbReq'[r].body[1].action = Some("accept")

\* C21: a failure while recording feedback never blocks or fails the
\* caller's primary action: feedbackHandler answers every request it has
\* finished with, 200 or, when mkdir or writeFile failed, 500, and never
\* throws; in the form the click on Accept sets the priority to the
\* suggested one in the same step that posts the feedback, and a pending
\* call of createIncident, then of fetchList, can settle in every state,
\* whether the feedback request succeeded, failed or is still pending
C21_FeedbackNeverBlocks ==
    /\ [](\A r \in FbIds : fbReq[r].pc = "done" =>
              ~fbReq[r].thrown /\ fbReq[r].status \in {200, 500})
    /\ [][Accepts => form'.priority = form.aiSuggestion[1].priority]_vars
    /\ [](\A c \in 1..Len(form.creates) :
              /\ form.creates[c].state = "pending" =>
                     ENABLED CreateSettles(c, TRUE) /\ ENABLED CreateSettles(c, FALSE)
              /\ form.creates[c].state = "listing" => ENABLED ListSettles(c))

\* C21 happens: an incident was created and its list refreshed while the
\* override posted for it was still pending, after an accept whose
\* recording had failed
C21_Witness ==
    \E c \in 1..Len(form.creates), r, q \in FbIds :
        /\ form.creates[c].state = "done"
        /\ form.creates[c].fb = r
        /\ r \in FeedbackPending
        /\ q \in FeedbackFailed
        /\ fbReq[q].body[1].action = Some("accept")

\* the record that feedback request r carries, as sendMlFeedback posted it
RecordOf(r) == fbReq[r].body[1]

\* the calls of onCreate whose incident was created
Created == {c \in 1..Len(form.creates) : form.creates[c].state \in {"listing", "done"}}

\* every record sent agrees with its action: an accept has final equal to
\* suggested, an override has final different from suggested and was
\* posted by a call of onCreate
AgreesWithAction ==
    \A r \in FbIds \ FreeFb :
        /\ RecordOf(r).action = Some("accept") => RecordOf(r).final = RecordOf(r).suggested
        /\ RecordOf(r).action = Some("override") =>
               /\ RecordOf(r).final # RecordOf(r).suggested
               /\ \E c \in 1..Len(form.creates) : form.creates[c].fb = r

\* C30: every feedback record the form sends is consistent with its
\* action: an accept has final equal to suggested, an override has final
\* different from suggested and is sent only by a create made while a
\* suggestion is present, and for one created incident at most one
\* feedback record was sent
C30_OneConsistentRecord ==
    /\ AgreesWithAction
    /\ \A c \in Created : Len(form.creates[c].records) <= 1

\* the text in the fields
CurrentText == <<form.title, form.description>>

\* the suggestion is rendered: !aiLoading && aiSuggestion
Shown == ~form.aiLoading /\ form.aiSuggestion # <<>>

\* no timeout of the effect is pending and no classify request in flight
Settled == form.timer = <<>> /\ form.fetches = {}

\* a timeout or a classify request for the text in the fields is pending
PendingForCurrent ==
    \/ form.timer # <<>> /\ form.timer[1].text = CurrentText
    \/ \E x \in form.fetches : x.text = CurrentText

\* once every classify request has settled, the suggestion shown is the
\* one for the text in the fields
ShowsCurrent == Settled /\ Shown => form.aiSuggestion[1].text = CurrentText

\* no suggestion is shown while both fields are empty
NoneWhenEmpty == CurrentText = <<0, 0>> => ~Shown

\* the indicator is off only when nothing is pending for the text in the
\* fields
IndicatorOffOnlyWhenIdle == ~form.aiLoading => ~PendingForCurrent

\* C29: once all pending classify requests have settled, the suggestion
\* shown is the classification of the current title and description (a
\* response to an earlier text never replaces the result for a later one),
\* no suggestion is shown while both fields are empty, also after Reset,
\* and the loading indicator is off only when no request for the current
\* text is still pending
C29_SuggestionIsCurrent ==
    /\ ShowsCurrent
    /\ NoneWhenEmpty
    /\ IndicatorOffOnlyWhenIdle

(* ------------------------------------------------------------------ *)
(* The ServiceNow hooks                                                *)
(* ------------------------------------------------------------------ *)
\* hook h is inside withRetry
InRetry(h) == Hook(h).pc \in {"try", "backoff"}

\* the attempts of withRetry in hook h that failed
Failures(h) == Hook(h).attempts - Cardinality(Hook(h).ok)

\* withRetry in hook h so far: at most 3 calls of fn, nothing after the
\* first success, a wait of 0.5 s, 1 s, 2 s after the 1st, 2nd, 3rd
\* failure, and a throw only after the 3rd failure, of its error
RetriesWithBackoff(h) ==
    /\ Hook(h).attempts <= 3
    /\ Hook(h).ok \subseteq {Hook(h).attempts}
    /\ Hook(h).ok # {} => ~InRetry(h)
    /\ Hook(h).waits = SubSeq(<<500, 1000, 2000>>, 1,
                              Failures(h) - (IF Hook(h).pc = "backoff" THEN 1 ELSE 0))
    /\ Hook(h).pc = "rejected" /\ Hook(h).err > 0 =>
           Hook(h).attempts = 3 /\ Hook(h).ok = {} /\ Hook(h).err = 3

\* C23: ServiceNow requests are retried with exponential backoff:
\* withRetry calls the operation at most 3 times, returns the first
\* success without a further attempt, waits 0.5 s, 1 s, 2 s after the
\* 1st, 2nd, 3rd failure, rejects with the last error after the 3rd
\* failure, and always terminates
C23_RetryWithBackoff ==
    /\ [](\A h \in HookIds : RetriesWithBackoff(h))
    /\ \A h \in HookIds : InRetry(h) ~> ~InRetry(h)

\* C23 happens: one call of withRetry threw after three failures and the
\* three waits, another returned the result of its third attempt
C23_Witness ==
    \E h, g \in HookIds :
        /\ Hook(h).pc = "rejected" /\ Hook(h).err = 3
        /\ Hook(h).waits = <<500, 1000, 2000>>
        /\ Hook(g).pc = "done" /\ Hook(g).ok = {3}
        /\ Hook(g).waits = <<500, 1000>>

\* an update called once a sys_id was stored creates no ticket and
\* patches the ticket stored
LaterUpdatesPatch ==
    \A h \in HookIds \ {1} :
        Hook(h).stored # 0 =>
            /\ Hook(h).made = 0
            /\ Hook(h).patched \in {0, Hook(h).stored}

\* C28: each incident is linked to at most one ServiceNow ticket: under
\* every interleaving of the create hook and the update hooks of the
\* incident, retries included, snCreate succeeds at most once for it, and
\* once a sys_id is stored every later update patches that ticket and
\* creates none
C28_AtMostOneTicket ==
    /\ sn.tickets <= 1
    /\ LaterUpdatesPatch

\* the incident of the table
Incident == inc.rows[1]

\* request r is a patch of the incident of the table with a status and
\* nothing else
StatusOnly(r) ==
    Patch(r).id = 1 /\ Updatable(Patch(r).status) /\ Patch(r).assetId = "undefined"

\* request r is a patch of the incident of the table with assetId null
\* and nothing else
ClearsOnly(r) ==
    Patch(r).id = 1 /\ Patch(r).status = "undefined" /\ Patch(r).assetId = "null"

\* request r names an asset the table does not hold
NamesNoAsset(r) ==
    /\ Patch(r).assetId \notin {"undefined", "null"}
    /\ Number(Patch(r).assetId) \notin Assets

\* request r carries neither a status nor an assetId that can be written
NoUpdatableField(r) == ~Updatable(Patch(r).status) /\ Patch(r).assetId = "undefined"

\* request r is answered in this step
Answers(r) == Patch(r).pc # "done" /\ inc'.reqs[r].pc = "done"

\* the step in which request r is answered changes the columns of the
\* incident it supplied to the values it supplied, and no other
SuppliedOnly(r) ==
    Answers(r) =>
        /\ ~Updatable(Patch(r).status) => inc'.rows[1].status = Incident.status
        /\ Patch(r).assetId = "undefined" => inc'.rows[1].assetId = Incident.assetId
        /\ StatusOnly(r) =>
              /\ inc'.rows[1].status = Patch(r).status
              /\ inc'.reqs[r].code = 200
        /\ ClearsOnly(r) =>
              /\ inc'.rows[1].assetId = null
              /\ inc'.reqs[r].code = 200
        /\ inc'.reqs[r].code # 200 => inc'.rows = inc.rows

\* the table changes only in a step that answers a request
OnlyAnswersWrite == inc'.rows # inc.rows => \E r \in PatchIds : Answers(r)

\* a request answered that named no asset of the table, or carried no
\* updatable field, was answered 400
Refuses(r) ==
    Patch(r).pc = "done" /\ Patch(r).id > 0 /\ (NamesNoAsset(r) \/ NoUpdatableField(r))
        => Patch(r).code = 400

\* C24: PATCH /incidents/:id changes only the fields supplied: on the
\* existing incident a status-only patch sets the status and leaves the
\* asset assignment as it was, a patch with assetId null clears the
\* assignment and leaves the status as it was, and both answer 200; a
\* patch naming an asset that does not exist or carrying no updatable
\* field answers 400 and changes no incident
C24_PatchChangesOnlySupplied ==
    /\ [][OnlyAnswersWrite /\ \A r \in PatchIds : SuppliedOnly(r)]_vars
    /\ [](\A r \in PatchIds : Refuses(r))

\* C24 happens: the incident had an asset and status OPEN; a status-only
\* patch was answered 200 and the asset is still assigned, and a patch
\* naming an asset that does not exist was answered 400
C24_Witness ==
    \E r, g \in PatchIds :
        /\ StatusOnly(r) /\ Patch(r).pc = "done" /\ Patch(r).code = 200
        /\ Incident = [status |-> Patch(r).status, assetId |-> Some(1)]
        /\ NamesNoAsset(g) /\ Patch(g).pc = "done" /\ Patch(g).code = 400

====
